---- MODULE Spec2Model ----
(***************************************************************************)
(* Model of the media-dashboard backend (aragorn2909/media-dashboard):      *)
(*   - the Transmission RPC session handshake (src/api/transmission.rs),    *)
(*   - the credential masking / merge protocol of the configuration form    *)
(*     (src/main.rs, get_dashboard_config / update_dashboard_config),       *)
(*   - the status aggregator (src/main.rs, get_all_status),                 *)
(*   - the status adapters, each get_status on its own (src/api/*.rs),      *)
(*   - the Jackett listing scanner (src/api/jackett.rs, list_indexers,      *)
(*     count_configured_indexers, extract_attr, extract_tag),               *)
(*   - the Transmission torrent summary (transmission.rs, fetch_extras),    *)
(*   - the Transmission client's functions, request by request              *)
(*     (src/api/transmission.rs, get_status, get_config, list_torrents...), *)
(*   - the configuration under its read/write lock, with concurrent         *)
(*     requests (src/main.rs, AppState.config, save_config_to_db).          *)
(* Each part has its own specification (SpecRpc, SpecCfg, SpecStatus,       *)
(* SpecAdapter, SpecScan, SpecExtras, SpecTransmission, SpecLock and, with  *)
(* fairness, SpecLockLive); the variables of the other parts stay at their  *)
(* initial values.                                                          *)
(***************************************************************************)
EXTENDS Integers, Sequences, FiniteSets, TLC

VARIABLES
    rpc_pc,      \* position of the rpc_request call: idle, sent1, sent2, done
    rpc_args,    \* the arguments of the call in progress: url, user, pass, body
    rpc_sent,    \* the requests this call has put on the wire, in order
    rpc_resp,    \* the responses this call has received, in order
    rpc_result,  \* what the call returned: Ok(value) or Err(...)
    config,      \* AppState.config: the in-memory configuration
    db,          \* the dashboard_settings table: key -> Some(value), None if no row
    cfg_pc,      \* the configuration form's round: idle, form, saving
    shown,       \* the last response of get_dashboard_config
    pending,     \* update_dashboard_config's resolved payload, not yet saved
    last,        \* the last update: the configuration before it and its payload
    poll_pc,     \* get_all_status: 0 before the call, i at the i-th backend, 8 returned
    statuses,    \* get_all_status: the Vec<ServiceStatus> built so far
    pushed_by,   \* for each element of statuses, the backend whose call pushed it
    probed,      \* the backend whose get_status was last awaited on its own, "" if none
    probe_input, \* how the backend behaved during that call
    probe_status, \* the ServiceStatus that call returned
    fragments,   \* the fragments the document under scan was made of
    xml,         \* the document the listing endpoint answered with
    listing,     \* list_indexers: idle, scanning, returned, error
    remaining,   \* list_indexers: the text not scanned yet
    indexers,    \* list_indexers: the records pushed so far
    counting,    \* count_configured_indexers: idle, scanning, returned
    search,      \* count_configured_indexers: the text not scanned yet
    count,       \* count_configured_indexers: the count so far
    extraction,  \* the last call of extract_attr or extract_tag: its input
    extracted,   \* what that call returned
    torrent_get, \* fetch_extras: the result of its rpc_request call
    torrent_extras, \* fetch_extras: the value it returned, None before a call
    op,          \* the client function in progress, with its arguments
    op_pc,       \* its position: idle, direct (own request sent), rpc, done
    wire,        \* every request that function has put on the wire, in order
    answers,     \* every response it has received, in order
    op_result,   \* what it returned
    prev_token,  \* the session token the function before it was handed, if any
    reader,      \* the handler that holds, or last held, the read lock
    seen,        \* the configuration that handler found at each of its reads
    updates,     \* for each concurrent POST /api/config, how far it has got
    versions     \* every value AppState.config has had, oldest first

rpcVars == <<rpc_pc, rpc_args, rpc_sent, rpc_resp, rpc_result>>
cfgVars == <<config, db, cfg_pc, shown, pending, last>>

pollVars == <<poll_pc, statuses, pushed_by>>
probeVars == <<probed, probe_input, probe_status>>
scanVars == <<fragments, xml, listing, remaining, indexers, counting, search, count,
              extraction, extracted>>
extrasVars == <<torrent_get, torrent_extras>>

transVars == <<op, op_pc, wire, answers, op_result, prev_token>>
lockVars == <<reader, seen, updates, versions>>

vars == <<rpcVars, cfgVars, pollVars, probeVars, scanVars, extrasVars,
          transVars, lockVars>>

\* Option values: None, or Some(x).
None == <<>>
Some(x) == <<x>>
\* The result of a call that has not returned yet.
NoResult == [ok |-> FALSE, kind |-> "pending"]
\* The arguments while no call is in progress.
NoArgs == [url |-> "", user |-> "", pass |-> "", body |-> ""]

(***************************************************************************)
(* HTTP values shared by the clients.                                       *)
(***************************************************************************)

\* The status codes a backend answers with in the model.
StatusCodes == {200, 204, 301, 401, 409, 500}

\* StatusCode::is_success: 200..=299.
IsSuccess(status) == status >= 200 /\ status < 300

\* StatusCode's Display: the code followed by its canonical reason.
CanonicalReason(status) ==
    CASE status = 200 -> "OK"
      [] status = 204 -> "No Content"
      [] status = 301 -> "Moved Permanently"
      [] status = 401 -> "Unauthorized"
      [] status = 409 -> "Conflict"
      [] status = 500 -> "Internal Server Error"
      [] OTHER -> "<unknown status code>"

StatusDisplay(status) == [code |-> status, reason |-> CanonicalReason(status)]

\* Header values are byte strings: "abc", the empty value, "xyz", and a value
\* with a byte outside visible ASCII (obs-text, which HTTP allows).
HeaderAbc == <<97, 98, 99>>
HeaderXyz == <<120, 121, 122>>
HeaderOpaque == <<115, 233, 115>>
HeaderValues == {HeaderAbc, HeaderXyz, <<>>, HeaderOpaque}

\* HeaderValue::to_str: the value as a string when every byte is visible
\* ASCII (32..126) or a tab, an error otherwise.
IsVisibleAscii(b) == (b >= 32 /\ b < 127) \/ b = 9

HeaderToStr(v) ==
    IF \A i \in 1..Len(v) : IsVisibleAscii(v[i])
    THEN [ok |-> TRUE, str |-> v]
    ELSE [ok |-> FALSE]

\* Response bodies: two JSON documents and one text that is not JSON.
BodySuccess == "{\"result\":\"success\",\"arguments\":{}}"
BodyDenied == "{\"result\":\"denied\"}"
BodyHtml == "<h1>409: Conflict</h1>"
\* A torrent-get answer that holds a torrent list.
BodyTorrents == "{\"result\":\"success\",\"arguments\":{\"torrents\":[...]}}"
ResponseBodies == {BodySuccess, BodyDenied, BodyHtml}

\* Response::json::<serde_json::Value>: the decoded document, or a decode error.
ParseJson(text) ==
    CASE text = BodySuccess ->
            [ok |-> TRUE, value |-> [result |-> "success", arguments |-> "{}"]]
      [] text = BodyDenied ->
            [ok |-> TRUE, value |-> [result |-> "denied"]]
      [] text = BodyTorrents ->
            [ok |-> TRUE,
             value |-> [result |-> "success", arguments |-> "{\"torrents\":[...]}"]]
      [] OTHER -> [ok |-> FALSE]

\* A response: status, the X-Transmission-Session-Id header (None when the
\* response has no such header) and the body text.
Responses ==
    [status : StatusCodes,
     session : {Some(v) : v \in HeaderValues} \cup {None},
     body : ResponseBodies]

(***************************************************************************)
(* Transmission RPC client: rpc_request.                                    *)
(***************************************************************************)

RpcUrls == {"http://tr:9091"}
RpcUsers == {"", "admin"}
RpcPasswords == {"", "pw"}
\* The request bodies the callers of rpc_request build (by method).
RpcBodies == {"torrent-get", "torrent-add", "torrent-start", "torrent-stop",
              "torrent-remove"}

\* format!("{}/transmission/rpc", url)
RpcEndpoint(url) == <<url, "/transmission/rpc">>

\* Mutant of BasicAuth: credentials are attached whatever the user name.
BasicAuthAlways(user, pass) == Some([user |-> user, pass |-> pass])

\* basic_auth(user, Some(pass)) only when the user name is not empty.
BasicAuth(user, pass) ==
    IF user # "" THEN Some([user |-> user, pass |-> pass]) ELSE None

\* Mutant of FirstRequest: the token kept from an earlier call is attached.
FirstRequestCachedToken(args) ==
    [method |-> "POST",
     endpoint |-> RpcEndpoint(args.url),
     body |-> args.body,
     session |-> prev_token,
     auth |-> BasicAuth(args.user, args.pass)]

\* The first request: no session header.
FirstRequest(args) ==
    [method |-> "POST",
     endpoint |-> RpcEndpoint(args.url),
     body |-> args.body,
     session |-> None,
     auth |-> BasicAuth(args.user, args.pass)]

\* The token read from a 409 response: the header's string, "" when the
\* header is absent or is not a visible-ASCII string.
SessionIdOf(resp) ==
    IF resp.session = None THEN <<>>
    ELSE IF HeaderToStr(resp.session[1]).ok THEN HeaderToStr(resp.session[1]).str
    ELSE <<>>

\* Mutant of RetryRequest: the retry goes out without the session header.
RetryRequestNoToken(args, resp) == FirstRequest(args)

\* The retry: same endpoint, same body, the session header attached.
RetryRequest(args, resp) ==
    [method |-> "POST",
     endpoint |-> RpcEndpoint(args.url),
     body |-> args.body,
     session |-> Some(SessionIdOf(resp)),
     auth |-> BasicAuth(args.user, args.pass)]

\* resp.json().await? : Ok(value), or the decode error.
JsonResult(resp) ==
    IF ParseJson(resp.body).ok
    THEN [ok |-> TRUE, value |-> ParseJson(resp.body).value]
    ELSE [ok |-> FALSE, kind |-> "decode"]

\* Mutant of ShouldRetry: every client error is retried, not only 409.
ShouldRetryAnyClientError(resp) == resp.status >= 400 /\ resp.status < 500

\* The branch taken on the first response.
ShouldRetry(resp) == resp.status = 409

\* Err(format!("Transmission returned HTTP {}", resp.status()))
HttpError(resp) ==
    [ok |-> FALSE, kind |-> "http",
     message |-> [text |-> "Transmission returned HTTP ",
                  status |-> StatusDisplay(resp.status)]]

TransportError == [ok |-> FALSE, kind |-> "transport"]

\* Mutant of FirstResult: the status is not looked at, the body is parsed.
FirstResultIgnoringStatus(resp) == JsonResult(resp)

\* The result of a call whose first response needs no retry.
FirstResult(resp) ==
    IF IsSuccess(resp.status) THEN JsonResult(resp) ELSE HttpError(resp)

\* Mutant of RetryResult: the retry's status is checked as the first one is.
RetryResultCheckingStatus(resp2) ==
    IF IsSuccess(resp2.status) THEN JsonResult(resp2) ELSE HttpError(resp2)

\* The result of a call after its retry was answered: the retry's parsed body.
RetryResult(resp2) == JsonResult(resp2)

RpcInit ==
    /\ rpc_pc = "idle"
    /\ rpc_args = NoArgs
    /\ rpc_sent = <<>>
    /\ rpc_resp = <<>>
    /\ rpc_result = NoResult

\* A caller starts rpc_request: the first POST goes out.
RpcCall(url, user, pass, body) ==
    /\ rpc_pc \in {"idle", "done"}
    /\ rpc_args' = [url |-> url, user |-> user, pass |-> pass, body |-> body]
    /\ rpc_sent' = <<FirstRequest(rpc_args')>>
    /\ rpc_resp' = <<>>
    /\ rpc_result' = NoResult
    /\ rpc_pc' = "sent1"

\* builder.send().await? fails: the error is returned.
RpcFirstTransportError ==
    /\ rpc_pc = "sent1"
    /\ rpc_result' = TransportError
    /\ rpc_pc' = "done"
    /\ UNCHANGED <<rpc_args, rpc_sent, rpc_resp>>

\* The first response arrives: retry on 409, else return.
RpcFirstResponse(resp) ==
    /\ rpc_pc = "sent1"
    /\ rpc_resp' = Append(rpc_resp, resp)
    /\ IF ShouldRetry(resp)
       THEN /\ rpc_sent' = Append(rpc_sent, RetryRequest(rpc_args, resp))
            /\ rpc_pc' = "sent2"
            /\ UNCHANGED rpc_result
       ELSE /\ rpc_result' = FirstResult(resp)
            /\ rpc_pc' = "done"
            /\ UNCHANGED rpc_sent
    /\ UNCHANGED rpc_args

\* builder2.send().await? fails: the error is returned.
RpcRetryTransportError ==
    /\ rpc_pc = "sent2"
    /\ rpc_result' = TransportError
    /\ rpc_pc' = "done"
    /\ UNCHANGED <<rpc_args, rpc_sent, rpc_resp>>

\* The retry's response arrives: its parsed body is the result.
RpcRetryResponse(resp2) ==
    /\ rpc_pc = "sent2"
    /\ rpc_resp' = Append(rpc_resp, resp2)
    /\ rpc_result' = RetryResult(resp2)
    /\ rpc_pc' = "done"
    /\ UNCHANGED <<rpc_args, rpc_sent>>

\* A step of the RPC client leaves the other parts alone.
RpcOnly ==
    UNCHANGED <<cfgVars, pollVars, probeVars, scanVars, extrasVars, transVars, lockVars>>

RpcNext ==
    \/ \E url \in RpcUrls, user \in RpcUsers, pass \in RpcPasswords, body \in RpcBodies :
          RpcCall(url, user, pass, body) /\ RpcOnly
    \/ RpcFirstTransportError /\ RpcOnly
    \/ \E resp \in Responses : RpcFirstResponse(resp) /\ RpcOnly
    \/ RpcRetryTransportError /\ RpcOnly
    \/ \E resp2 \in Responses : RpcRetryResponse(resp2) /\ RpcOnly

(***************************************************************************)
(* Configuration form: get_dashboard_config, update_dashboard_config,       *)
(* save_config_to_db, load_config_from_db.                                  *)
(***************************************************************************)

\* The most fields a stored configuration has filled in.
MaxConfigured == 2

\* let mask = "********"
MaskStr == "********"

\* struct Config, in declaration order.
Fields ==
    <<"sonarr_url", "sonarr_key", "radarr_url", "radarr_key", "jackett_url",
      "jackett_key", "transmission_url", "transmission_user", "transmission_pass",
      "plex_url", "plex_token", "jellyfin_url", "jellyfin_key", "emby_url",
      "emby_key">>

FieldSet == {Fields[i] : i \in 1..Len(Fields)}

UrlFields ==
    {"sonarr_url", "radarr_url", "jackett_url", "transmission_url", "plex_url",
     "jellyfin_url", "emby_url"}

\* The fields get_dashboard_config masks and update_dashboard_config restores.
MaskedFields ==
    {"sonarr_key", "radarr_key", "jackett_key", "transmission_pass", "plex_token",
     "jellyfin_key", "emby_key"}

\* Every field a backend request uses as a credential.
CredentialFields == MaskedFields \cup {"transmission_user"}

\* The values a field takes in the model.
ValuesOf(f) ==
    IF f \in UrlFields THEN {"", "http://host"}
    ELSE IF f = "transmission_user" THEN {"", "admin", MaskStr}
    ELSE {"", "k1", "k2", MaskStr}

\* Config::default(): every field the empty string.
DefaultConfig == [f \in FieldSet |-> ""]

NonEmptyCount(c) == Cardinality({f \in FieldSet : c[f] # ""})

\* The configurations with at most k fields filled in.
RECURSIVE ConfigsWith(_)
ConfigsWith(k) ==
    IF k = 0 THEN {DefaultConfig}
    ELSE LET prev == ConfigsWith(k - 1)
         IN  prev \cup UNION {{[c EXCEPT ![f] = v] : c \in prev, v \in ValuesOf(f)} :
                                f \in FieldSet}

StoredConfigs == {c \in ConfigsWith(MaxConfigured) : NonEmptyCount(c) <= MaxConfigured}

\* Mutant of Mask: plex_token is left out of the masking.
MaskForgettingPlex(c) ==
    [c EXCEPT
        !.sonarr_key = IF @ # "" THEN MaskStr ELSE @,
        !.radarr_key = IF @ # "" THEN MaskStr ELSE @,
        !.jackett_key = IF @ # "" THEN MaskStr ELSE @,
        !.transmission_pass = IF @ # "" THEN MaskStr ELSE @,
        !.jellyfin_key = IF @ # "" THEN MaskStr ELSE @,
        !.emby_key = IF @ # "" THEN MaskStr ELSE @]

\* Mutant of Mask: the emptiness tests of the first two lines read the next
\* field (sonarr_key is masked when radarr_key is set, radarr_key when
\* jackett_key is set).
MaskShifted(c) ==
    LET c1 == [c EXCEPT !.sonarr_key = IF c.radarr_key # "" THEN MaskStr ELSE @]
        c2 == [c1 EXCEPT !.radarr_key = IF c1.jackett_key # "" THEN MaskStr ELSE @]
    IN  [c2 EXCEPT
            !.jackett_key = IF @ # "" THEN MaskStr ELSE @,
            !.transmission_pass = IF @ # "" THEN MaskStr ELSE @,
            !.plex_token = IF @ # "" THEN MaskStr ELSE @,
            !.jellyfin_key = IF @ # "" THEN MaskStr ELSE @,
            !.emby_key = IF @ # "" THEN MaskStr ELSE @]

\* get_dashboard_config: a clone of the configuration with each of the seven
\* fields replaced by the mask when it is not empty.
Mask(c) ==
    [c EXCEPT
        !.sonarr_key = IF @ # "" THEN MaskStr ELSE @,
        !.radarr_key = IF @ # "" THEN MaskStr ELSE @,
        !.jackett_key = IF @ # "" THEN MaskStr ELSE @,
        !.transmission_pass = IF @ # "" THEN MaskStr ELSE @,
        !.plex_token = IF @ # "" THEN MaskStr ELSE @,
        !.jellyfin_key = IF @ # "" THEN MaskStr ELSE @,
        !.emby_key = IF @ # "" THEN MaskStr ELSE @]

\* Mutant of Merge: the payload replaces the configuration as submitted.
MergeVerbatim(stored, payload) == payload

\* Mutant of Merge: an empty secret is taken as unchanged too.
MergeEmptyKeepsStored(stored, payload) ==
    [f \in FieldSet |->
        IF f \in MaskedFields /\ payload[f] \in {MaskStr, ""} THEN stored[f]
        ELSE payload[f]]

\* update_dashboard_config: the payload, with each of the seven fields that
\* equals the mask replaced by the stored value.
Merge(stored, payload) ==
    [payload EXCEPT
        !.sonarr_key = IF @ = MaskStr THEN stored.sonarr_key ELSE @,
        !.radarr_key = IF @ = MaskStr THEN stored.radarr_key ELSE @,
        !.jackett_key = IF @ = MaskStr THEN stored.jackett_key ELSE @,
        !.transmission_pass = IF @ = MaskStr THEN stored.transmission_pass ELSE @,
        !.plex_token = IF @ = MaskStr THEN stored.plex_token ELSE @,
        !.jellyfin_key = IF @ = MaskStr THEN stored.jellyfin_key ELSE @,
        !.emby_key = IF @ = MaskStr THEN stored.emby_key ELSE @]

\* The settings table with no rows (a fresh database).
EmptyTable == [f \in FieldSet |-> None]

\* save_config_to_db: one INSERT OR REPLACE per field.
SaveConfigToDb(table, c) == [f \in FieldSet |-> Some(c[f])]

\* load_config_from_db: get_setting(key).unwrap_or_default() per field.
LoadConfigFromDb(table) ==
    [f \in FieldSet |-> IF table[f] = None THEN "" ELSE table[f][1]]

NoUpdate == [before |-> DefaultConfig, incoming |-> DefaultConfig, unchanged |-> FALSE]

\* The state while no configuration request is modelled.
CfgIdle ==
    /\ config = DefaultConfig
    /\ db = EmptyTable
    /\ cfg_pc = "idle"
    /\ shown = DefaultConfig
    /\ pending = DefaultConfig
    /\ last = NoUpdate

\* main: the configuration is loaded from whatever the settings table holds.
StartupTables == {EmptyTable} \cup {SaveConfigToDb(EmptyTable, c) : c \in StoredConfigs}

CfgInit ==
    /\ db \in StartupTables
    /\ config = LoadConfigFromDb(db)
    /\ cfg_pc = "idle"
    /\ shown = DefaultConfig
    /\ pending = DefaultConfig
    /\ last = NoUpdate

\* GET /api/config: the form is filled with the masked configuration.
GetDashboardConfig ==
    /\ cfg_pc = "idle"
    /\ shown' = Mask(config)
    /\ cfg_pc' = "form"
    /\ last' = NoUpdate
    /\ UNCHANGED <<config, db, pending>>

\* POST /api/config, the block under the write lock: the form comes back with
\* at most one field edited; the resolved payload replaces the configuration.
UpdateDashboardConfig(f, v) ==
    /\ cfg_pc = "form"
    /\ LET payload == [shown EXCEPT ![f] = v]
           resolved == Merge(config, payload)
       IN  /\ NonEmptyCount(resolved) <= MaxConfigured
           /\ config' = resolved
           /\ pending' = resolved
           /\ last' = [before |-> config, incoming |-> payload,
                       unchanged |-> (payload = shown)]
    /\ cfg_pc' = "saving"
    /\ shown' = DefaultConfig
    /\ UNCHANGED db

\* POST /api/config, after the lock is released: save_config_to_db(payload).
SaveConfig ==
    /\ cfg_pc = "saving"
    /\ db' = SaveConfigToDb(db, pending)
    /\ cfg_pc' = "idle"
    /\ pending' = DefaultConfig
    /\ UNCHANGED <<config, shown, last>>

\* A step of the configuration form leaves the other parts alone.
CfgOnly ==
    UNCHANGED <<rpcVars, pollVars, probeVars, scanVars, extrasVars, transVars, lockVars>>

CfgNext ==
    \/ GetDashboardConfig /\ CfgOnly
    \/ \E f \in FieldSet : \E v \in ValuesOf(f) : UpdateDashboardConfig(f, v) /\ CfgOnly
    \/ SaveConfig /\ CfgOnly



(***************************************************************************)
(* Texts.  A text is the sequence of its pieces read one after another;     *)
(* the texts the scanner reads are sequences of single characters.          *)
(***************************************************************************)

\* Option::unwrap_or / unwrap_or_default / unwrap_or_else
UnwrapOr(opt, default) == IF opt = None THEN default ELSE opt[1]

\* str::find: the offset of the first occurrence of needle in s, if any.
Find(s, needle) ==
    LET hits == {i \in 0..(Len(s) - Len(needle)) :
                    \A k \in 1..Len(needle) : s[i + k] = needle[k]}
    IN  IF hits = {} THEN None
        ELSE Some(CHOOSE i \in hits : \A j \in hits : i <= j)

\* &s[start..]
From(s, start) == SubSeq(s, start + 1, Len(s))

\* s.chars().take(n)
Take(s, n) == IF Len(s) <= n THEN s ELSE SubSeq(s, 1, n)

\* str::trim: the text without its leading and trailing whitespace.
Trim(s) ==
    LET keep == {i \in 1..Len(s) : s[i] \notin {" ", "\t", "\n", "\r"}}
    IN  IF keep = {} THEN <<>>
        ELSE SubSeq(s, CHOOSE i \in keep : \A j \in keep : i <= j,
                       CHOOSE i \in keep : \A j \in keep : j <= i)

\* The text of n copies of the character c.
Pad(c, n) == [i \in 1..n |-> c]

\* The decimal digits of a natural number, as Display writes them.
RECURSIVE Decimal(_)
Decimal(n) ==
    LET digit == <<"0", "1", "2", "3", "4", "5", "6", "7", "8", "9">>[(n % 10) + 1]
    IN  IF n < 10 THEN <<digit>> ELSE Decimal(n \div 10) \o <<digit>>

\* The concatenation of a sequence of texts.
RECURSIVE Concat(_)
Concat(texts) ==
    IF texts = <<>> THEN <<>> ELSE Head(texts) \o Concat(Tail(texts))

\* The bounds of the scanner's documents and of the torrent lists.
MaxFragments == 2
MaxTorrents == 7

(***************************************************************************)
(* Jackett indexer scanner: extract_attr, extract_tag, list_indexers,       *)
(* count_configured_indexers.                                               *)
(***************************************************************************)

\* The length bounds of extract_attr and extract_tag, the window of the
\* counting pass and the length of the marker the passes skip.
AttrBound == 200
TagBound == 500
CountWindow == 300
MarkerLen == 9

Marker == <<"<", "i", "n", "d", "e", "x", "e", "r", " ">>

\* Mutant of ExtractAttr: a value that is too long is cut at the bound.
ExtractAttrTruncating(s, attr) ==
    LET needle == attr \o <<"=", "\"">>
        found == Find(s, needle)
    IN  IF found = None THEN None
        ELSE LET rest == From(s, found[1] + Len(needle))
                 end == Find(rest, <<"\"">>)
             IN  IF end = None THEN None
                 ELSE Some(Take(rest, IF end[1] < AttrBound THEN end[1] ELSE AttrBound))

\* extract_attr(s, attr)
ExtractAttr(s, attr) ==
    LET needle == attr \o <<"=", "\"">>
        found == Find(s, needle)
    IN  IF found = None THEN None
        ELSE LET rest == From(s, found[1] + Len(needle))
                 end == Find(rest, <<"\"">>)
             IN  IF end = None THEN None
                 ELSE IF end[1] < AttrBound THEN Some(SubSeq(rest, 1, end[1]))
                 ELSE None

\* extract_tag(s, tag)
ExtractTag(s, tag) ==
    LET open == <<"<">> \o tag \o <<">">>
        close == <<"<", "/">> \o tag \o <<">">>
        found == Find(s, open)
    IN  IF found = None THEN None
        ELSE LET rest == From(s, found[1] + Len(open))
                 end == Find(rest, close)
             IN  IF end = None THEN None
                 ELSE IF end[1] < TagBound THEN Some(Trim(SubSeq(rest, 1, end[1])))
                 ELSE None

\* The body of list_indexers' loop: the record built from the text that
\* follows a marker.
IndexerAt(rest) ==
    LET id == UnwrapOr(ExtractAttr(rest, <<"i", "d">>), <<>>)
        itype == UnwrapOr(ExtractAttr(rest, <<"t", "y", "p", "e">>), <<"p", "u", "b", "l", "i", "c">>)
        name == UnwrapOr(ExtractTag(rest, <<"t", "i", "t", "l", "e">>), id)
        value == ExtractAttr(rest, <<"c", "o", "n", "f", "i", "g", "u", "r", "e", "d">>)
        configured == IF value = None THEN FALSE ELSE value[1] = <<"t", "r", "u", "e">>
    IN  [id |-> id, name |-> name, type |-> itype, configured |-> configured]

\* Mutant of ListStep: the marker is not skipped.
ListStepKeepingMarker(rest0, found0) ==
    LET rest == From(rest0, Find(rest0, Marker)[1])
        indexer == IndexerAt(rest)
    IN  [remaining |-> rest,
         indexers |-> IF indexer.configured THEN Append(found0, indexer) ELSE found0]

\* One iteration of list_indexers' loop, from a text that holds a marker.
ListStep(rest0, found0) ==
    LET rest == From(rest0, Find(rest0, Marker)[1] + MarkerLen)
        indexer == IndexerAt(rest)
    IN  [remaining |-> rest,
         indexers |-> IF indexer.configured THEN Append(found0, indexer) ELSE found0]

\* One iteration of count_configured_indexers' loop, from a text that holds
\* a marker.
CountStep(search0, count0) ==
    LET pos == Find(search0, Marker)[1]
        tag_slice == Take(From(search0, pos), CountWindow)
    IN  [search |-> From(search0, pos + MarkerLen),
         count |-> IF Find(tag_slice, <<"c", "o", "n", "f", "i", "g", "u", "r", "e", "d", "=", "\"", "t", "r", "u", "e", "\"">>) # None THEN count0 + 1 ELSE count0]

\* count_configured_indexers(xml)
RECURSIVE CountLoop(_, _)
CountLoop(search0, count0) ==
    IF Find(search0, Marker) = None THEN count0
    ELSE LET next == CountStep(search0, count0)
         IN  CountLoop(next.search, next.count)

CountConfiguredIndexers(doc) == CountLoop(doc, 0)

\* The fragments the listing endpoint's documents are made of: an indexer
\* element with an id, possibly a type and a configured attribute, possibly a
\* title of its own, and possibly a long attribute before the configured
\* one.  A fragment may be cut short: "attr" ends it inside the value of its
\* id attribute, "title" inside its title; "none" leaves it whole.
Fragment(id, itype, configured, title, filler, cut) ==
    [id |-> id, itype |-> itype, configured |-> configured, title |-> title,
     filler |-> filler, cut |-> cut]

FragmentKinds ==
    {Fragment(<<"a">>, None, Some(<<"t", "r", "u", "e">>), Some(<<"A", "l", "p", "h", "a">>), 0, "none"),
     Fragment(<<"b">>, None, Some(<<"t", "r", "u", "e">>), None, 0, "none"),
     Fragment(<<"c">>, None, Some(<<"f", "a", "l", "s", "e">>), Some(<<"G", "a", "m", "m", "a">>), 0, "none"),
     Fragment(<<"d">>, None, None, Some(<<"D", "e", "l", "t", "a">>), 0, "none"),
     Fragment(<<"e">>, None, Some(<<"t", "r", "u", "e">>), Some(<<"E", "p", "s">>), CountWindow, "none"),
     Fragment(<<"g">>, Some(<<"p", "r", "i", "v", "a", "t", "e">>), Some(<<"t", "r", "u", "e">>), Some(<<"E", "t", "a">>), 0, "none"),
     Fragment(<<"f">>, None, None, None, 0, "attr"),
     Fragment(<<"h">>, None, Some(<<"t", "r", "u", "e">>), Some(<<"T", "h", "e", "t", "a">>), 0, "title")}

\* The text of a fragment.
FragmentText(fr) ==
    IF fr.cut = "attr" THEN Marker \o <<"i", "d", "=", "\"">> \o fr.id
    ELSE
    Marker \o <<"i", "d", "=", "\"">> \o fr.id \o <<"\"">>
    \o (IF fr.itype = None THEN <<>>
        ELSE <<" ", "t", "y", "p", "e", "=", "\"">> \o fr.itype[1] \o <<"\"">>)
    \o (IF fr.filler = 0 THEN <<>>
        ELSE <<" ", "c", "a", "p", "s", "=", "\"">> \o Pad("x", fr.filler) \o <<"\"">>)
    \o (IF fr.configured = None THEN <<>>
        ELSE <<" ", "c", "o", "n", "f", "i", "g", "u", "r", "e", "d", "=", "\"">> \o fr.configured[1] \o <<"\"">>)
    \o <<">">>
    \o (IF fr.title = None THEN <<>>
        ELSE IF fr.cut = "title" THEN <<"<", "t", "i", "t", "l", "e", ">">> \o fr.title[1]
        ELSE <<"<", "t", "i", "t", "l", "e", ">">> \o fr.title[1] \o <<"<", "/", "t", "i", "t", "l", "e", ">">>)
    \o (IF fr.cut = "title" THEN <<>> ELSE <<"<", "/", "i", "n", "d", "e", "x", "e", "r", ">">>)

\* The sequences of at most MaxFragments fragments.
FragmentLists == UNION {[1..k -> FragmentKinds] : k \in 0..MaxFragments}

\* The document that holds the given fragments; a document whose last
\* fragment is cut short ends there.
DocumentOf(frs) ==
    <<"<", "i", "n", "d", "e", "x", "e", "r", "s", ">">>
    \o Concat([i \in 1..Len(frs) |-> FragmentText(frs[i])])
    \o (IF frs # <<>> /\ frs[Len(frs)].cut # "none" THEN <<>> ELSE <<"<", "/", "i", "n", "d", "e", "x", "e", "r", "s", ">">>)

\* The inputs of the extractors: a lead, an opening delimiter, a raw value
\* of some length, and a closing delimiter or none.
Extraction(fn, lead, raw, closed) ==
    [fn |-> fn, lead |-> lead, raw |-> raw, closed |-> closed]

AttrInputs ==
    {Extraction("attr", lead, Pad("v", n), closed) :
        lead \in {<<>>, <<"<", "i", "n", "d", "e", "x", "e", "r", " ">>, <<"t", "y", "p", "e", "=", "p", "u", "b", "l", "i", "c", " ">>},
        n \in {0, 3, AttrBound - 1, AttrBound, AttrBound + 1}, closed \in BOOLEAN}

TagInputs ==
    {Extraction("tag", lead, space \o Pad("v", n) \o space, closed) :
        lead \in {<<>>, <<"<", "i", "n", "d", "e", "x", "e", "r", " ", "i", "d", "=", "\"", "a", "\"", ">">>},
        space \in {<<>>, <<" ">>},
        n \in {0, 3, TagBound - 3, TagBound - 2, TagBound - 1, TagBound, TagBound + 1},
        closed \in BOOLEAN}

\* The text an extractor is called on.
ExtractionText(x) ==
    IF x.fn = "attr"
    THEN x.lead \o <<"n", "a", "m", "e", "=", "\"">> \o x.raw \o (IF x.closed THEN <<"\"", " ", "n", "e", "x", "t", "=", "\"", "w", "\"">> ELSE <<>>)
    ELSE x.lead \o <<"<", "t", "i", "t", "l", "e", ">">> \o x.raw \o (IF x.closed THEN <<"<", "/", "t", "i", "t", "l", "e", ">", "<", "x", ">">> ELSE <<>>)

NoExtraction == Extraction("none", <<>>, <<>>, FALSE)

\* The state while no scan is modelled.
ScanIdle ==
    /\ fragments = <<>>
    /\ xml = <<>>
    /\ listing = "idle"
    /\ remaining = <<>>
    /\ indexers = <<>>
    /\ counting = "idle"
    /\ search = <<>>
    /\ count = 0
    /\ extraction = NoExtraction
    /\ extracted = None

\* Each call is examined from rest: the passes and the extractors keep
\* nothing from one call to the next.
ScanAtRest == listing = "idle" /\ counting = "idle" /\ extraction = NoExtraction

\* The listing endpoint answers with a document; list_indexers and
\* count_configured_indexers each start their scan of it.
ScanStart(frs) ==
    /\ ScanAtRest
    /\ fragments' = frs
    /\ xml' = DocumentOf(frs)
    /\ listing' = "scanning"
    /\ remaining' = DocumentOf(frs)
    /\ indexers' = <<>>
    /\ counting' = "scanning"
    /\ search' = DocumentOf(frs)
    /\ count' = 0
    /\ UNCHANGED <<extraction, extracted>>

\* while let Some(start) = remaining.find("<indexer ")
ListIter ==
    /\ listing = "scanning"
    /\ Find(remaining, Marker) # None
    /\ remaining' = ListStep(remaining, indexers).remaining
    /\ indexers' = ListStep(remaining, indexers).indexers
    /\ UNCHANGED <<fragments, xml, listing, counting, search, count,
                   extraction, extracted>>

\* Ok(Value::Array(indexers))
ListReturn ==
    /\ listing = "scanning"
    /\ Find(remaining, Marker) = None
    /\ listing' = "returned"
    /\ UNCHANGED <<fragments, xml, remaining, indexers, counting, search, count,
                   extraction, extracted>>

\* list_indexers when the request fails or the status is not a success: the
\* error is returned and nothing is scanned.
ListError(status) ==
    /\ ScanAtRest
    /\ ~IsSuccess(status)
    /\ fragments' = <<>>
    /\ xml' = <<>>
    /\ listing' = "error"
    /\ remaining' = <<>>
    /\ indexers' = <<>>
    /\ counting' = "idle"
    /\ search' = <<>>
    /\ count' = 0
    /\ UNCHANGED <<extraction, extracted>>

\* while let Some(pos) = search.find("<indexer ")
CountIter ==
    /\ counting = "scanning"
    /\ Find(search, Marker) # None
    /\ search' = CountStep(search, count).search
    /\ count' = CountStep(search, count).count
    /\ UNCHANGED <<fragments, xml, listing, remaining, indexers, counting,
                   extraction, extracted>>

\* the loop ends: count is returned
CountReturn ==
    /\ counting = "scanning"
    /\ Find(search, Marker) = None
    /\ counting' = "returned"
    /\ UNCHANGED <<fragments, xml, listing, remaining, indexers, search, count,
                   extraction, extracted>>

\* A call of extract_attr(s, "name").
ExtractAttrCall(x) ==
    /\ x.fn = "attr"
    /\ ScanAtRest
    /\ extraction' = x
    /\ extracted' = ExtractAttr(ExtractionText(x), <<"n", "a", "m", "e">>)
    /\ UNCHANGED <<fragments, xml, listing, remaining, indexers, counting,
                   search, count>>

\* A call of extract_tag(s, "title").
ExtractTagCall(x) ==
    /\ x.fn = "tag"
    /\ ScanAtRest
    /\ extraction' = x
    /\ extracted' = ExtractTag(ExtractionText(x), <<"t", "i", "t", "l", "e">>)
    /\ UNCHANGED <<fragments, xml, listing, remaining, indexers, counting,
                   search, count>>

ScanOnly == UNCHANGED <<rpcVars, cfgVars, pollVars, probeVars, extrasVars,
              transVars, lockVars>>

ScanNext ==
    \/ \E frs \in FragmentLists : ScanStart(frs) /\ ScanOnly
    \/ ListIter /\ ScanOnly
    \/ ListReturn /\ ScanOnly
    \/ \E status \in StatusCodes : ListError(status) /\ ScanOnly
    \/ CountIter /\ ScanOnly
    \/ CountReturn /\ ScanOnly
    \/ \E x \in AttrInputs : ExtractAttrCall(x) /\ ScanOnly
    \/ \E x \in TagInputs : ExtractTagCall(x) /\ ScanOnly

(***************************************************************************)
(* Transmission torrent summary: fetch_extras.                              *)
(***************************************************************************)

\* The number of names fetch_extras lists: take(5).
NamesShown == 5

\* struct TorrentInfo; percent_done is held in thousandths.
Torrent(status, name, permille) ==
    [status |-> status, name |-> name, permille |-> permille]

TorrentKinds ==
    {Torrent(4, "ubuntu.iso", 125),
     Torrent(4, "debian.iso", 996),
     Torrent(6, "arch.iso", 1000)}

\* (t.percent_done * 100.0).round() as i64
Percent(permille) == (permille + 5) \div 10

\* format!("{} ({}%)", t.name, pct)
FormatName(t) == <<t.name, " (">> \o Decimal(Percent(t.permille)) \o <<"%)">>

\* The results rpc_request gives fetch_extras: an error, a document without
\* arguments, a document whose arguments do not hold a torrent list, or a
\* torrent list.
RpcErr == [ok |-> FALSE, value |-> [shape |-> "none"]]
RpcOk(value) == [ok |-> TRUE, value |-> value]
TorrentGet(torrents) ==
    [shape |-> "object", arguments |-> Some([torrents |-> torrents])]

\* Mutant of FetchExtras: the names are those of the first torrents of the
\* whole list.
FetchExtrasNamingAll(result) ==
    IF ~result.ok
       \/ result.value.shape # "object"
       \/ result.value.arguments = None
    THEN [object |-> "{}"]
    ELSE LET torrents == result.value.arguments[1].torrents
             IsDownloading(t) == t.status = 4
             downloading == SelectSeq(torrents, IsDownloading)
         IN  [total_torrents |-> Len(torrents),
              downloading |-> Len(downloading),
              downloading_names |->
                  [i \in 1..Len(Take(downloading, NamesShown)) |->
                      FormatName(torrents[i])]]

\* transmission::fetch_extras, from the result of its rpc_request call.
FetchExtras(result) ==
    IF ~result.ok
       \/ result.value.shape # "object"
       \/ result.value.arguments = None
    THEN [object |-> "{}"]
    ELSE LET torrents == result.value.arguments[1].torrents
             IsDownloading(t) == t.status = 4
             downloading == SelectSeq(torrents, IsDownloading)
         IN  [total_torrents |-> Len(torrents),
              downloading |-> Len(downloading),
              downloading_names |->
                  [i \in 1..Len(Take(downloading, NamesShown)) |->
                      FormatName(downloading[i])]]

\* The results fetch_extras is examined under, with every torrent list of
\* at most MaxTorrents torrents.
TorrentGetResults ==
    {RpcErr,
     RpcOk([shape |-> "object", arguments |-> None]),
     RpcOk([shape |-> "other"])}
    \cup UNION {{RpcOk(TorrentGet(ts)) : ts \in [1..k -> TorrentKinds]} :
                  k \in 0..MaxTorrents}

\* The state while no fetch_extras call is modelled.
ExtrasIdle ==
    /\ torrent_get = RpcErr
    /\ torrent_extras = None

\* A call of fetch_extras whose rpc_request returned result; each call is
\* examined from rest, fetch_extras keeps nothing from one call to the next.
FetchExtrasCall(result) ==
    /\ torrent_extras = None
    /\ torrent_get' = result
    /\ torrent_extras' = Some(FetchExtras(result))

ExtrasNext ==
    \E result \in TorrentGetResults :
        /\ FetchExtrasCall(result)
        /\ UNCHANGED <<rpcVars, cfgVars, pollVars, probeVars, scanVars, transVars, lockVars>>

(***************************************************************************)
(* Status adapters and the status aggregator: get_status, get_all_status.   *)
(***************************************************************************)

\* The number of characters of the response body jackett::get_status quotes.
ExcerptChars == 80

\* One HTTP call of an adapter as the backend treats it: refused, or answered
\* with a status and a body that has the expected shape ("good") or not.
Call(net, status, body) == [net |-> net, status |-> status, body |-> body]

CallOk == Call("answered", 200, "good")
CallRefused == Call("refused", 200, "good")

Calls ==
    {CallRefused}
    \cup {Call("answered", status, body) : status \in {200, 500}, body \in {"good", "bad"}}

\* A further call gave the adapter a document it can read: it was answered
\* with a success status and a body of the expected shape.
Usable(call) == call.net = "answered" /\ IsSuccess(call.status) /\ call.body = "good"

\* What a backend does during one get_status call: whether the primary call
\* is answered, with which status and with a body of the expected shape or
\* not, and how the adapter's further calls go.
Behaviour(net, status, body, second, third) ==
    [net |-> net, status |-> status, body |-> body, second |-> second, third |-> third]

\* The behaviours the aggregator's polls run under.
Behaviours ==
    {Behaviour("refused", 200, "good", CallOk, CallOk),
     Behaviour("answered", 500, "good", CallOk, CallOk),
     Behaviour("answered", 409, "good", CallOk, CallOk),
     Behaviour("answered", 200, "bad", CallOk, CallOk)}
    \cup {Behaviour("answered", 200, "good", second, third) :
            second \in {CallOk, CallRefused}, third \in {CallOk, CallRefused}}

\* A body has the shape the adapter expects: "good" has, "bad" and "long"
\* have not.
Parses(body) == body = "good"

\* The text of a body.
BodyText(body) ==
    CASE body = "good" -> <<"<", "o", "k", "/", ">">>
      [] body = "bad" -> <<"o", "o", "p", "s">>
      [] body = "long" -> Pad("x", ExcerptChars + 1)

\* The behaviours a single get_status call is examined under.
AdapterBehaviours ==
    {Behaviour("refused", 200, "good", CallOk, CallOk)}
    \cup {Behaviour("answered", status, body, CallOk, CallOk) :
            status \in {409, 500}, body \in {"good", "bad", "long"}}
    \cup {Behaviour("answered", status, body, second, third) :
            status \in {200, 204}, body \in {"good", "bad", "long"},
            second \in Calls, third \in Calls}

\* struct ServiceStatus
ServiceStatus(name, active, message, version, extras) ==
    [name |-> name, active |-> active, message |-> message, version |-> version,
     extras |-> extras]

\* Mutant of TransportMessage: the error has no description.
TransportMessageEmpty == <<>>

\* e.to_string() of a reqwest error.
TransportMessage == <<"error sending request">>

\* format!("HTTP {}", resp.status())
HttpMessage(status) ==
    <<"HTTP ">> \o Decimal(status) \o <<" ", CanonicalReason(status)>>

\* sonarr::fetch_extras: each count falls back to 0 on its own.
SonarrExtras(b) ==
    [missing_episodes |-> IF Usable(b.second) THEN 3 ELSE 0,
     total_series |-> IF Usable(b.third) THEN 12 ELSE 0]

\* Mutant of SonarrGetStatus: the parse failure keeps the extras.
SonarrGetStatusParseKeepsExtras(b) ==
    IF b.net = "refused"
    THEN ServiceStatus("Sonarr", FALSE, TransportMessage, None, None)
    ELSE IF ~IsSuccess(b.status)
    THEN ServiceStatus("Sonarr", FALSE, HttpMessage(b.status), None, None)
    ELSE IF ~Parses(b.body)
    THEN ServiceStatus("Sonarr", TRUE, <<"Parse Error">>, None,
                       Some(SonarrExtras(b)))
    ELSE ServiceStatus("Sonarr", TRUE, <<"Running">>, Some("4.0.0"),
                       Some(SonarrExtras(b)))

\* sonarr::get_status
SonarrGetStatus(b) ==
    IF b.net = "refused"
    THEN ServiceStatus("Sonarr", FALSE, TransportMessage, None, None)
    ELSE IF ~IsSuccess(b.status)
    THEN ServiceStatus("Sonarr", FALSE, HttpMessage(b.status), None, None)
    ELSE IF ~Parses(b.body)
    THEN ServiceStatus("Sonarr", TRUE, <<"Parse Error">>, None, None)
    ELSE ServiceStatus("Sonarr", TRUE, <<"Running">>, Some("4.0.0"),
                       Some(SonarrExtras(b)))

\* radarr::get_status: the Sonarr-like adapter of the movie manager.
RadarrGetStatus(b) ==
    IF b.net = "refused"
    THEN ServiceStatus("Radarr", FALSE, TransportMessage, None, None)
    ELSE IF ~IsSuccess(b.status)
    THEN ServiceStatus("Radarr", FALSE, HttpMessage(b.status), None, None)
    ELSE IF ~Parses(b.body)
    THEN ServiceStatus("Radarr", TRUE, <<"Parse Error">>, None, None)
    ELSE ServiceStatus("Radarr", TRUE, <<"Running">>, Some("5.0.0"),
                       Some([missing |-> IF Usable(b.second) THEN 1 ELSE 0]))

\* The text the listing endpoint answers with: a document of two configured
\* indexers when the body is good, the body's text otherwise.
ListingText(body) ==
    IF body = "good"
    THEN DocumentOf(<<Fragment(<<"a">>, None, Some(<<"t", "r", "u", "e">>), Some(<<"A", "l", "p", "h", "a">>), 0, "none"),
                      Fragment(<<"b">>, None, Some(<<"t", "r", "u", "e">>), None, 0, "none")>>)
    ELSE BodyText(body)

\* count_configured_indexers of each of these texts.
ListingCounts ==
    [body \in {"good", "bad"} |-> CountConfiguredIndexers(ListingText(body))]

\* jackett::get_status, the listing call: the count of whatever text the
\* endpoint answered with, whatever its status, and 0 when the call got no
\* answer.
JackettTotal(call) ==
    IF call.net = "refused" THEN 0 ELSE ListingCounts[call.body]

\* jackett::get_status: the search endpoint decides active; the listing
\* endpoint only gives total_indexers.  ("--" stands for the dash of the
\* source's message.)
JackettGetStatus(b) ==
    IF b.net = "refused"
    THEN ServiceStatus("Jackett", FALSE,
                       <<"Connection error: ">> \o TransportMessage, None, None)
    ELSE IF ~IsSuccess(b.status)
    THEN ServiceStatus("Jackett", FALSE,
                       <<"HTTP -- ">> \o Take(BodyText(b.body), ExcerptChars),
                       None, None)
    ELSE ServiceStatus("Jackett", TRUE, <<"Running">>, None,
                       Some([total_indexers |-> JackettTotal(b.second),
                             failed_count |-> 0,
                             failed_indexers |-> <<>>]))

\* The torrent list of a torrent-get that works: five torrents, two of them
\* downloading.
FiveTorrents ==
    <<Torrent(6, "arch.iso", 1000), Torrent(4, "ubuntu.iso", 125),
      Torrent(0, "mint.iso", 0), Torrent(4, "debian.iso", 996),
      Torrent(6, "arch.iso", 1000)>>

\* transmission::fetch_extras in get_status: rpc_request gives the parsed
\* document, or an error when the call is refused, fails by its status or
\* does not hold JSON.
TransmissionExtras(b) ==
    FetchExtras(IF Usable(b.second) THEN RpcOk(TorrentGet(FiveTorrents)) ELSE RpcErr)

\* transmission::get_status: a success status or 409 on session-get is active.
TransmissionGetStatus(b) ==
    IF b.net = "refused"
    THEN ServiceStatus("Transmission", FALSE, TransportMessage, None, None)
    ELSE IF IsSuccess(b.status) \/ b.status = 409
    THEN ServiceStatus("Transmission", TRUE, <<"Running">>, None,
                       Some(TransmissionExtras(b)))
    ELSE ServiceStatus("Transmission", FALSE, HttpMessage(b.status), None, None)

\* format!("{} active session(s)", active_count)
SessionsMessage(n) == Decimal(n) \o <<" active session(s)">>

\* format!("Parse Error: {}", e)
ParseErrorMessage == <<"Parse Error: ", "error decoding response body">>

\* plex::get_status
PlexGetStatus(b) ==
    IF b.net = "refused"
    THEN ServiceStatus("Plex", FALSE, TransportMessage, None, None)
    ELSE IF ~IsSuccess(b.status)
    THEN ServiceStatus("Plex", FALSE, HttpMessage(b.status), None, None)
    ELSE IF ~Parses(b.body)
    THEN ServiceStatus("Plex", TRUE, ParseErrorMessage, None, None)
    ELSE ServiceStatus("Plex", TRUE, SessionsMessage(1), None,
                       Some([active_sessions |-> 1, sessions |-> <<"Film (ann)">>]))

\* jellyfin::get_status: the Emby-like adapter of the second streaming server.
JellyfinGetStatus(b) ==
    IF b.net = "refused"
    THEN ServiceStatus("Jellyfin", FALSE, TransportMessage, None, None)
    ELSE IF ~IsSuccess(b.status)
    THEN ServiceStatus("Jellyfin", FALSE, HttpMessage(b.status), None, None)
    ELSE IF ~Parses(b.body)
    THEN ServiceStatus("Jellyfin", TRUE, ParseErrorMessage, None, None)
    ELSE ServiceStatus("Jellyfin", TRUE, SessionsMessage(1), None,
                       Some([active_sessions |-> 1, sessions |-> <<"Film (ann)">>]))

\* emby::get_status
EmbyGetStatus(b) ==
    IF b.net = "refused"
    THEN ServiceStatus("Emby", FALSE, TransportMessage, None, None)
    ELSE IF ~IsSuccess(b.status)
    THEN ServiceStatus("Emby", FALSE, HttpMessage(b.status), None, None)
    ELSE IF ~Parses(b.body)
    THEN ServiceStatus("Emby", TRUE, ParseErrorMessage, None, None)
    ELSE ServiceStatus("Emby", TRUE, SessionsMessage(1), None,
                       Some([active_sessions |-> 1, sessions |-> <<"Film (ann)">>]))

\* The adapter each call site of get_all_status invokes.
GetStatus(backend, b) ==
    CASE backend = "plex" -> PlexGetStatus(b)
      [] backend = "sonarr" -> SonarrGetStatus(b)
      [] backend = "radarr" -> RadarrGetStatus(b)
      [] backend = "jackett" -> JackettGetStatus(b)
      [] backend = "transmission" -> TransmissionGetStatus(b)
      [] backend = "jellyfin" -> JellyfinGetStatus(b)
      [] backend = "emby" -> EmbyGetStatus(b)

\* Mutant of PollOrder: the Sonarr and Plex blocks are exchanged.
PollOrderSonarrFirst ==
    <<"sonarr", "plex", "radarr", "jackett", "transmission", "jellyfin", "emby">>

\* get_all_status: the order of its seven blocks.
PollOrder ==
    <<"plex", "sonarr", "radarr", "jackett", "transmission", "jellyfin", "emby">>

\* The URL field each block tests.
UrlField(backend) ==
    CASE backend = "plex" -> "plex_url"
      [] backend = "sonarr" -> "sonarr_url"
      [] backend = "radarr" -> "radarr_url"
      [] backend = "jackett" -> "jackett_url"
      [] backend = "transmission" -> "transmission_url"
      [] backend = "jellyfin" -> "jellyfin_url"
      [] backend = "emby" -> "emby_url"

\* if !config.<backend>_url.is_empty()
IsConfigured(c, backend) == c[UrlField(backend)] # ""

\* The state while no status poll is modelled.
PollIdle ==
    /\ poll_pc = 0
    /\ statuses = <<>>
    /\ pushed_by = <<>>

\* The configurations a poll runs under: every choice of configured backends.
PollConfigs ==
    {[f \in FieldSet |->
        IF f \in UrlFields THEN (IF f \in urls THEN "http://host" ELSE "")
        ELSE IF f = "transmission_user" THEN "admin"
        ELSE "k1"] : urls \in SUBSET UrlFields}

\* GET /api/status arrives: the read lock is taken, the list is empty.
PollStart ==
    /\ poll_pc \in {0, Len(PollOrder) + 1}
    /\ poll_pc' = 1
    /\ statuses' = <<>>
    /\ pushed_by' = <<>>

\* Mutant of PollBlock: an inactive status ends the poll.
PollBlockStoppingOnFailure(backend, b) ==
    /\ poll_pc \in 1..Len(PollOrder)
    /\ PollOrder[poll_pc] = backend
    /\ IF IsConfigured(config, backend)
       THEN /\ statuses' = Append(statuses, GetStatus(backend, b))
            /\ pushed_by' = Append(pushed_by, backend)
       ELSE UNCHANGED <<statuses, pushed_by>>
    /\ poll_pc' = IF IsConfigured(config, backend) /\ ~GetStatus(backend, b).active
                  THEN Len(PollOrder) + 1
                  ELSE poll_pc + 1

\* One block of get_all_status: when the backend's URL is not empty its
\* adapter is awaited and its status pushed.
PollBlock(backend, b) ==
    /\ poll_pc \in 1..Len(PollOrder)
    /\ PollOrder[poll_pc] = backend
    /\ IF IsConfigured(config, backend)
       THEN /\ statuses' = Append(statuses, GetStatus(backend, b))
            /\ pushed_by' = Append(pushed_by, backend)
       ELSE UNCHANGED <<statuses, pushed_by>>
    /\ poll_pc' = poll_pc + 1

PollPlex(b) == PollBlock("plex", b)
PollSonarr(b) == PollBlock("sonarr", b)
PollRadarr(b) == PollBlock("radarr", b)
PollJackett(b) == PollBlock("jackett", b)
PollTransmission(b) == PollBlock("transmission", b)
PollJellyfin(b) == PollBlock("jellyfin", b)
PollEmby(b) == PollBlock("emby", b)

\* Json(statuses) has been returned.
PollReturned == poll_pc = Len(PollOrder) + 1

\* A step of the aggregator leaves the other parts, and the configuration
\* it holds the read lock of, alone.
PollOnly ==
    UNCHANGED <<rpcVars, cfgVars, probeVars, scanVars, extrasVars, transVars, lockVars>>

PollNext ==
    \/ PollStart /\ PollOnly
    \/ \E b \in Behaviours : PollPlex(b) /\ PollOnly
    \/ \E b \in Behaviours : PollSonarr(b) /\ PollOnly
    \/ \E b \in Behaviours : PollRadarr(b) /\ PollOnly
    \/ \E b \in Behaviours : PollJackett(b) /\ PollOnly
    \/ \E b \in Behaviours : PollTransmission(b) /\ PollOnly
    \/ \E b \in Behaviours : PollJellyfin(b) /\ PollOnly
    \/ \E b \in Behaviours : PollEmby(b) /\ PollOnly

(***************************************************************************)
(* A single get_status call, examined on its own.                           *)
(***************************************************************************)

\* The state while no get_status call is examined.
ProbeIdle ==
    /\ probed = ""
    /\ probe_input = Behaviour("refused", 200, "good", CallOk, CallOk)
    /\ probe_status = ServiceStatus("", FALSE, <<>>, None, None)

\* get_status of one backend is awaited while the backend behaves as b.
Probe(backend, b) ==
    /\ probed' = backend
    /\ probe_input' = b
    /\ probe_status' = GetStatus(backend, b)

\* The adapters whose source is at hand.
ProbedBackends == {"sonarr", "jackett", "transmission", "plex", "emby"}

ProbeNext ==
    \E backend \in ProbedBackends : \E b \in AdapterBehaviours :
        /\ Probe(backend, b)
        /\ UNCHANGED <<rpcVars, cfgVars, pollVars, scanVars, extrasVars, transVars, lockVars>>

(***************************************************************************)
(* Transmission client operations, request by request: get_status,          *)
(* get_config, update_config and the torrent operations.                    *)
(***************************************************************************)

\* The public functions of the Transmission client.
Operations ==
    {"get_status", "get_config", "update_config", "list_torrents", "add_torrent",
     "start_torrent", "stop_torrent", "remove_torrent"}

\* The functions that build and send their own request instead of calling
\* rpc_request.
DirectOperations == {"get_status", "get_config", "update_config"}

\* The method of the request body each function builds.
OperationBody(name) ==
    CASE name = "get_status" -> "session-get"
      [] name = "get_config" -> "session-get"
      [] name = "update_config" -> "session-set"
      [] name = "list_torrents" -> "torrent-get"
      [] name = "add_torrent" -> "torrent-add"
      [] name = "start_torrent" -> "torrent-start"
      [] name = "stop_torrent" -> "torrent-stop"
      [] name = "remove_torrent" -> "torrent-remove"

\* The responses the backend gives while an operation is followed request by
\* request.
OpResponses ==
    [status : {200, 409, 500},
     session : {Some(HeaderAbc), None},
     body : {BodyTorrents, BodyDenied, BodyHtml}]

\* The operation while none is in progress.
NoOp == [name |-> "", url |-> "", user |-> "", pass |-> "", body |-> ""]

\* client.post(&endpoint).json(&rpc_req), with basic_auth only when the user
\* name is not empty: the request get_status, get_config and update_config
\* send themselves.
DirectRequest(args) ==
    [method |-> "POST",
     endpoint |-> RpcEndpoint(args.url),
     body |-> args.body,
     session |-> None,
     auth |-> IF args.user # "" THEN Some([user |-> args.user, pass |-> args.pass])
              ELSE None]

\* serde_json::from_value::<TorrentGetResponse>(data) in fetch_extras, on the
\* result of rpc_request: the torrent list, a document without arguments, or
\* a document whose arguments do not hold a torrent list.
AsTorrentGet(result) ==
    IF ~result.ok THEN RpcErr
    ELSE IF result.value = ParseJson(BodyTorrents).value
    THEN RpcOk(TorrentGet(FiveTorrents))
    ELSE IF result.value = ParseJson(BodyDenied).value
    THEN RpcOk([shape |-> "object", arguments |-> None])
    ELSE RpcOk([shape |-> "other"])

\* Mutant of StatusRunning: a failed torrent-get makes the status inactive.
StatusRunningIfExtras(result) ==
    IF result.ok
    THEN ServiceStatus("Transmission", TRUE, <<"Running">>, None,
                       Some(FetchExtras(AsTorrentGet(result))))
    ELSE ServiceStatus("Transmission", FALSE, <<"Running">>, None,
                       Some(FetchExtras(AsTorrentGet(result))))

\* get_status after fetch_extras returned.
StatusRunning(result) ==
    ServiceStatus("Transmission", TRUE, <<"Running">>, None,
                  Some(FetchExtras(AsTorrentGet(result))))

\* builder.send().await?.error_for_status()? of update_config.
ErrorForStatus(resp) ==
    IF resp.status >= 400 /\ resp.status < 600
    THEN [ok |-> FALSE, kind |-> "status"]
    ELSE [ok |-> TRUE, value |-> [result |-> "()"]]

\* The token the operation that just ended was handed, if it was handed one.
TokenHanded ==
    IF \E i \in 1..Len(answers) : answers[i].status = 409
    THEN LET i == CHOOSE j \in 1..Len(answers) :
                     /\ answers[j].status = 409
                     /\ \A k \in 1..Len(answers) : answers[k].status = 409 => k <= j
         IN  Some(SessionIdOf(answers[i]))
    ELSE None

\* The state while no operation is followed.
TransIdle ==
    /\ op = NoOp
    /\ op_pc = "idle"
    /\ wire = <<>>
    /\ answers = <<>>
    /\ op_result = NoResult
    /\ prev_token = None

\* A handler calls one of the client's functions: its first request goes out.
\* Nothing is left of the rpc_request call of an earlier function.
OpCall(name, url, user, pass) ==
    /\ op_pc \in {"idle", "done"}
    /\ op' = [name |-> name, url |-> url, user |-> user, pass |-> pass,
              body |-> OperationBody(name)]
    /\ prev_token' = TokenHanded
    /\ answers' = <<>>
    /\ op_result' = NoResult
    /\ IF name \in DirectOperations
       THEN /\ wire' = <<DirectRequest(op')>>
            /\ op_pc' = "direct"
            /\ rpc_pc' = "idle"
            /\ rpc_args' = NoArgs
            /\ rpc_sent' = <<>>
            /\ rpc_resp' = <<>>
            /\ rpc_result' = NoResult
       ELSE /\ RpcCall(url, user, pass, OperationBody(name))
            /\ wire' = <<rpc_sent'[1]>>
            /\ op_pc' = "rpc"

\* builder.send().await fails in get_status, get_config or update_config.
DirectTransportError ==
    /\ op_pc = "direct"
    /\ op_result' = IF op.name = "get_status"
                    THEN ServiceStatus("Transmission", FALSE, TransportMessage,
                                       None, None)
                    ELSE TransportError
    /\ op_pc' = "done"
    /\ UNCHANGED <<op, wire, answers, prev_token, rpcVars>>

\* The response to that request arrives.  get_config parses its body whatever
\* the status; update_config fails on an error status; get_status goes on to
\* fetch_extras, whose rpc_request sends torrent-get, on a success status or
\* 409, and reports the status otherwise.
DirectResponse(resp) ==
    /\ op_pc = "direct"
    /\ answers' = <<resp>>
    /\ IF op.name = "get_status" /\ (IsSuccess(resp.status) \/ resp.status = 409)
       THEN /\ RpcCall(op.url, op.user, op.pass, "torrent-get")
            /\ wire' = Append(wire, rpc_sent'[1])
            /\ op_pc' = "rpc"
            /\ UNCHANGED op_result
       ELSE /\ op_result' =
                  CASE op.name = "get_status" ->
                          ServiceStatus("Transmission", FALSE,
                                        HttpMessage(resp.status), None, None)
                    [] op.name = "get_config" -> JsonResult(resp)
                    [] op.name = "update_config" -> ErrorForStatus(resp)
            /\ op_pc' = "done"
            /\ UNCHANGED <<wire, rpcVars>>
    /\ UNCHANGED <<op, prev_token>>

\* What a step of rpc_request adds to the operation that called it: the
\* request it sent, the response it received and, once it has returned, the
\* operation's result.
Handshake ==
    /\ op_pc = "rpc"
    /\ wire' = IF Len(rpc_sent') > Len(rpc_sent)
               THEN Append(wire, rpc_sent'[Len(rpc_sent')])
               ELSE wire
    /\ answers' = IF Len(rpc_resp') > Len(rpc_resp)
                  THEN Append(answers, rpc_resp'[Len(rpc_resp')])
                  ELSE answers
    /\ IF rpc_pc' = "done"
       THEN /\ op_pc' = "done"
            /\ op_result' = IF op.name = "get_status"
                            THEN StatusRunning(rpc_result')
                            ELSE rpc_result'
       ELSE UNCHANGED <<op_pc, op_result>>
    /\ UNCHANGED <<op, prev_token>>

\* A step of the Transmission client leaves the other parts alone.
TransOnly == UNCHANGED <<cfgVars, pollVars, probeVars, scanVars, extrasVars, lockVars>>

TransNext ==
    \/ \E name \in Operations, url \in RpcUrls, user \in RpcUsers, pass \in RpcPasswords :
          OpCall(name, url, user, pass) /\ TransOnly
    \/ DirectTransportError /\ TransOnly
    \/ \E resp \in OpResponses : DirectResponse(resp) /\ TransOnly
    \/ RpcFirstTransportError /\ Handshake /\ TransOnly
    \/ \E resp \in OpResponses : RpcFirstResponse(resp) /\ Handshake /\ TransOnly
    \/ RpcRetryTransportError /\ Handshake /\ TransOnly
    \/ \E resp2 \in OpResponses : RpcRetryResponse(resp2) /\ Handshake /\ TransOnly

(***************************************************************************)
(* The configuration under its lock: AppState.config is a                   *)
(* tokio::sync::RwLock<Config>.  Requests run as tasks of their own; a      *)
(* task gives way to the others at each .await.                             *)
(***************************************************************************)

\* The requests to POST /api/config that run at the same time.
Updaters == {"A", "B"}

\* The handlers that read the configuration: one that awaits several
\* adapters under one guard, one that awaits a single client function, one
\* that clones the configuration.
ReadHandlers == {"get_all_status", "transmission_list_torrents", "get_dashboard_config"}

\* The configuration the server starts with: Sonarr and Transmission are
\* configured.
StartConfigs ==
    {[DefaultConfig EXCEPT !.sonarr_url = "http://host", !.sonarr_key = "k1",
                           !.transmission_url = "http://host",
                           !.transmission_pass = "k1"]}

\* The bodies posted: a new Sonarr key with the password as the form shows
\* it, the form as shown with a Plex server added, the form with a new
\* password.
UpdatePayloads ==
    {[DefaultConfig EXCEPT !.sonarr_url = "http://host", !.sonarr_key = "k2",
                           !.transmission_url = "http://host",
                           !.transmission_pass = MaskStr],
     [DefaultConfig EXCEPT !.sonarr_url = "http://host", !.sonarr_key = MaskStr,
                           !.transmission_url = "http://host",
                           !.transmission_pass = MaskStr,
                           !.plex_url = "http://host", !.plex_token = "k1"],
     [DefaultConfig EXCEPT !.sonarr_url = "http://host", !.sonarr_key = MaskStr,
                           !.transmission_url = "http://host",
                           !.transmission_pass = "k2"]}

\* No read handler has run.
NoReader == [handler |-> "", at |-> 0, awaiting |-> FALSE, holding |-> FALSE]

\* An update request that has not arrived.
NoRequest ==
    [pc |-> "idle", payload |-> DefaultConfig, resolved |-> DefaultConfig, saved |-> 0]

\* The state while no concurrent request is modelled.
LockIdle ==
    /\ reader = NoReader
    /\ seen = <<>>
    /\ updates = [u \in Updaters |-> NoRequest]
    /\ versions = <<>>

\* main: the configuration is what load_config_from_db found in the table.
LockInit ==
    /\ config \in StartConfigs
    /\ db = SaveConfigToDb(EmptyTable, config)
    /\ cfg_pc = "idle"
    /\ shown = DefaultConfig
    /\ pending = DefaultConfig
    /\ last = NoUpdate
    /\ reader = NoReader
    /\ seen = <<>>
    /\ updates = [u \in Updaters |-> NoRequest]
    /\ versions = <<config>>

\* The number of awaited calls a handler makes under its guard.
CallsOf(handler) == IF handler = "get_all_status" THEN Len(PollOrder) ELSE 1

\* let config = state.config.read().await: the guard is granted whenever no
\* writer holds the lock.  get_dashboard_config clones through a guard that
\* is dropped at the end of the statement.
ReadLock(handler) ==
    /\ ~reader.holding
    /\ IF handler = "get_dashboard_config"
       THEN /\ reader' = [handler |-> handler, at |-> 2, awaiting |-> FALSE,
                          holding |-> FALSE]
            /\ seen' = <<config>>
       ELSE /\ reader' = [handler |-> handler, at |-> 1, awaiting |-> FALSE,
                          holding |-> TRUE]
            /\ seen' = <<>>
    /\ UNCHANGED <<config, db, updates, versions>>

\* The next block of get_all_status, or the call of
\* transmission_list_torrents: the fields are read through the guard; the
\* poll skips a backend whose URL is empty, otherwise the request is sent
\* and its answer awaited.
AdapterCall ==
    /\ reader.holding
    /\ ~reader.awaiting
    /\ reader.at <= CallsOf(reader.handler)
    /\ seen' = Append(seen, config)
    /\ IF reader.handler = "get_all_status"
          /\ ~IsConfigured(config, PollOrder[reader.at])
       THEN reader' = [reader EXCEPT !.at = @ + 1]
       ELSE reader' = [reader EXCEPT !.awaiting = TRUE]
    /\ UNCHANGED <<config, db, updates, versions>>

\* The backend answers, or the connection fails: the awaited call returns.
\* The client is built without a timeout (Client::builder().user_agent(..)
\* .build()) and no adapter sets one on its request: nothing else ends the
\* wait.
BackendAnswers ==
    /\ reader.awaiting
    /\ reader' = [reader EXCEPT !.awaiting = FALSE, !.at = @ + 1]
    /\ UNCHANGED <<config, db, seen, updates, versions>>

\* The handler returns and its guard is dropped.
ReadUnlock ==
    /\ reader.holding
    /\ ~reader.awaiting
    /\ reader.at = CallsOf(reader.handler) + 1
    /\ reader' = [reader EXCEPT !.holding = FALSE]
    /\ UNCHANGED <<config, db, seen, updates, versions>>

\* Mutant of WriteBlock: the write guard is granted while a read guard is
\* out.
WriteBlockIgnoringReaders(u, payload) ==
    /\ updates[u].pc = "idle"
    /\ LET resolved == Merge(config, payload)
       IN  /\ config' = resolved
           /\ versions' = Append(versions, resolved)
           /\ updates' = [updates EXCEPT ![u] = [pc |-> "saving", payload |-> payload,
                                                 resolved |-> resolved, saved |-> 0]]
    /\ UNCHANGED <<db, reader, seen>>

\* Mutant of WriteBlock: the mask is resolved against the configuration the
\* server started with.
WriteBlockResolvingEarly(u, payload) ==
    /\ updates[u].pc = "idle"
    /\ ~reader.holding
    /\ LET resolved == Merge(versions[1], payload)
       IN  /\ config' = resolved
           /\ versions' = Append(versions, resolved)
           /\ updates' = [updates EXCEPT ![u] = [pc |-> "saving", payload |-> payload,
                                                 resolved |-> resolved, saved |-> 0]]
    /\ UNCHANGED <<db, reader, seen>>

\* update_dashboard_config, the block under state.config.write().await: the
\* guard is granted when no read guard is out; nothing is awaited inside the
\* block, so it is one step: the mask is resolved against the configuration
\* in memory and the payload replaces it.
WriteBlock(u, payload) ==
    /\ updates[u].pc = "idle"
    /\ ~reader.holding
    /\ LET resolved == Merge(config, payload)
       IN  /\ config' = resolved
           /\ versions' = Append(versions, resolved)
           /\ updates' = [updates EXCEPT ![u] = [pc |-> "saving", payload |-> payload,
                                                 resolved |-> resolved, saved |-> 0]]
    /\ UNCHANGED <<db, reader, seen>>

\* save_config_to_db, after the block: the next db::set_setting(..).await of
\* the resolved payload, in the order of the fifteen calls.  After the last
\* one the handler logs the event and returns.
SetSetting(u) ==
    /\ updates[u].pc = "saving"
    /\ LET k == updates[u].saved + 1
       IN  /\ db' = [db EXCEPT ![Fields[k]] = Some(updates[u].resolved[Fields[k]])]
           /\ updates' = [updates EXCEPT ![u].saved = k,
                                         ![u].pc = IF k = Len(Fields) THEN "done"
                                                   ELSE "saving"]
    /\ UNCHANGED <<config, reader, seen, versions>>

\* A step of these requests leaves the other parts, and the configuration
\* form, alone.
LockOnly ==
    UNCHANGED <<rpcVars, pollVars, probeVars, scanVars, extrasVars, transVars,
                cfg_pc, shown, pending, last>>

\* The steps the runtime takes as soon as it can: those of the handlers.
HandlerStep ==
    \/ \E handler \in ReadHandlers : ReadLock(handler) /\ LockOnly
    \/ AdapterCall /\ LockOnly
    \/ ReadUnlock /\ LockOnly
    \/ \E u \in Updaters : \E payload \in UpdatePayloads : WriteBlock(u, payload) /\ LockOnly
    \/ \E u \in Updaters : SetSetting(u) /\ LockOnly

LockNext ==
    \/ HandlerStep
    \/ BackendAnswers /\ LockOnly
(***************************************************************************)
(* Specifications.                                                          *)
(***************************************************************************)

\* The RPC client alone.
RpcSpecInit ==
    RpcInit /\ CfgIdle /\ PollIdle /\ ProbeIdle /\ ScanIdle /\ ExtrasIdle /\ TransIdle /\ LockIdle

SpecRpc == RpcSpecInit /\ [][RpcNext]_vars

\* The configuration form alone.
CfgSpecInit ==
    CfgInit /\ RpcInit /\ PollIdle /\ ProbeIdle /\ ScanIdle /\ ExtrasIdle /\ TransIdle /\ LockIdle

SpecCfg == CfgSpecInit /\ [][CfgNext]_vars

\* The same, started from a settings table in which no credential is the mask.
CfgCleanInit ==
    /\ CfgSpecInit
    /\ \A f \in CredentialFields : config[f] # MaskStr

SpecCfgClean == CfgCleanInit /\ [][CfgNext]_vars

\* The status aggregator alone, under each configuration.
PollSpecInit ==
    /\ RpcInit
    /\ PollIdle
    /\ ProbeIdle
    /\ ScanIdle
    /\ ExtrasIdle
    /\ TransIdle
    /\ LockIdle
    /\ config \in PollConfigs
    /\ db = SaveConfigToDb(EmptyTable, config)
    /\ cfg_pc = "idle"
    /\ shown = DefaultConfig
    /\ pending = DefaultConfig
    /\ last = NoUpdate

SpecStatus == PollSpecInit /\ [][PollNext]_vars

\* Everything at rest: no call of any part has been made.
AllIdle ==
    RpcInit /\ CfgIdle /\ PollIdle /\ ProbeIdle /\ ScanIdle /\ ExtrasIdle /\ TransIdle /\ LockIdle

\* A single get_status call alone.
SpecAdapter == AllIdle /\ [][ProbeNext]_vars

\* The indexer scanner and its extractors alone.
SpecScan == AllIdle /\ [][ScanNext]_vars

\* The torrent summary alone.
SpecExtras == AllIdle /\ [][ExtrasNext]_vars

\* The Transmission client's functions, request by request.
SpecTransmission == AllIdle /\ [][TransNext]_vars

\* The server at start: every part at rest, the configuration loaded.
LockSpecInit ==
    RpcInit /\ PollIdle /\ ProbeIdle /\ ScanIdle /\ ExtrasIdle /\ TransIdle /\ LockInit

\* Concurrent requests on the shared configuration.
SpecLock == LockSpecInit /\ [][LockNext]_vars

\* The same, with the handlers' steps taken whenever they stay possible.  A
\* backend is under no obligation to answer.
SpecLockLive == SpecLock /\ WF_vars(HandlerStep)

(***************************************************************************)
(* Claims about the status aggregator.                                      *)
(***************************************************************************)

\* The display order of the backends, each with its URL field and the name
\* its adapter gives its status.
DisplayRows ==
    << <<"plex", "plex_url", "Plex">>,
       <<"sonarr", "sonarr_url", "Sonarr">>,
       <<"radarr", "radarr_url", "Radarr">>,
       <<"jackett", "jackett_url", "Jackett">>,
       <<"transmission", "transmission_url", "Transmission">>,
       <<"jellyfin", "jellyfin_url", "Jellyfin">>,
       <<"emby", "emby_url", "Emby">> >>

\* The rows of the backends whose URL is not empty, in display order.
ConfiguredRows ==
    LET HasUrl(row) == config[row[2]] # ""
    IN  SelectSeq(DisplayRows, HasUrl)

\* C10: the list get_all_status returns holds exactly one status per backend
\* whose URL is not empty and none for the others, in the order Plex, Sonarr,
\* Radarr, Jackett, Transmission, Jellyfin, Emby, whatever the adapters'
\* outcomes were.
C10_OneRowPerConfiguredBackend ==
    PollReturned =>
        /\ Len(statuses) = Len(ConfiguredRows)
        /\ Len(pushed_by) = Len(ConfiguredRows)
        /\ \A i \in 1..Len(ConfiguredRows) :
              /\ pushed_by[i] = ConfiguredRows[i][1]
              /\ statuses[i].name = ConfiguredRows[i][3]

\* C10 witness: a poll returned with Plex unreachable, Sonarr not configured,
\* and Radarr and Emby running.
C10_Witness ==
    /\ PollReturned
    /\ config.sonarr_url = ""
    /\ Len(statuses) = 3
    /\ statuses[1].name = "Plex" /\ ~statuses[1].active
    /\ statuses[2].name = "Radarr" /\ statuses[2].active
    /\ statuses[3].name = "Emby" /\ statuses[3].active

(***************************************************************************)
(* Claims about the configuration form.                                     *)
(***************************************************************************)

\* An update has replaced the configuration since the form was fetched.
Updated == cfg_pc = "saving" \/ (cfg_pc = "idle" /\ last # NoUpdate)

\* C5: submitting the form as get_dashboard_config returned it leaves the
\* configuration as it was, in memory and, once saved, in the settings table.
C5_RoundTrip ==
    (Updated /\ last.unchanged) =>
        /\ config = last.before
        /\ cfg_pc = "idle" => LoadConfigFromDb(db) = last.before

\* C5 witness: a configuration with a real sonarr_key was shown masked, the
\* form was submitted unchanged and saved.
C5_Witness ==
    /\ cfg_pc = "idle"
    /\ last.unchanged
    /\ last.before.sonarr_key = "k1"
    /\ last.incoming.sonarr_key = MaskStr

\* C6 (as amended): starting from a configuration in which no credential is
\* the mask, no API key, token or password of the in-memory configuration, of
\* a payload being saved or of the settings table ever equals the mask.
C6_NoSentinelSecret ==
    \A f \in MaskedFields :
        /\ config[f] # MaskStr
        /\ pending[f] # MaskStr
        /\ db[f] # Some(MaskStr)

\* C6 witness: a payload carried the mask for a secret that was stored empty,
\* and the update was saved.
C6_Witness ==
    /\ cfg_pc = "idle"
    /\ last # NoUpdate
    /\ last.before.sonarr_key = ""
    /\ last.incoming.sonarr_key = MaskStr

\* C6 as stated: no credential at all (the Transmission user name included)
\* of the in-memory configuration or of the settings table ever equals the
\* mask, so that the mask is never sent to a backend as a credential.
C6_Original ==
    \A f \in CredentialFields :
        /\ config[f] # MaskStr
        /\ db[f] # Some(MaskStr)

SecretVariants(c) ==
    LET filled == {f \in MaskedFields : c[f] # ""}
    IN  {[f \in FieldSet |-> IF f \in filled THEN g[f] ELSE c[f]] :
            g \in [filled -> {"k1", "k2", MaskStr}]}

\* C8 (as amended): the displayed configuration shows every API key, token
\* and the Transmission password as the mask when it is not empty and as the
\* empty string when it is empty, and every other field, the Transmission user
\* name included, as stored; two stored configurations that differ only in the
\* values of non-empty keys, tokens or passwords are displayed identically.
C8_MaskHidesSecrets ==
    cfg_pc = "form" =>
        /\ \A f \in MaskedFields : shown[f] = IF config[f] # "" THEN MaskStr ELSE ""
        /\ \A f \in FieldSet \ MaskedFields : shown[f] = config[f]
        /\ \A other \in SecretVariants(config) : Mask(other) = shown

\* C8 witness: a configuration with a plex_token and no emby_key is displayed.
C8_Witness ==
    /\ cfg_pc = "form"
    /\ config.plex_token = "k1"
    /\ config.emby_key = ""
    /\ shown.plex_token = MaskStr

\* C8 as stated: the Transmission user name is masked like the other secrets.
C8_Original ==
    cfg_pc = "form" =>
        \A f \in CredentialFields : shown[f] = IF config[f] # "" THEN MaskStr ELSE ""

\* C9: masking the displayed (already masked) configuration gives the same
\* displayed configuration.
C9_MaskIdempotent == cfg_pc = "form" => Mask(shown) = shown

\* C9 witness: a displayed configuration with a masked and an empty secret.
C9_Witness ==
    /\ cfg_pc = "form"
    /\ shown.jackett_key = MaskStr
    /\ shown.sonarr_key = ""

(***************************************************************************)
(* Claims about rpc_request.                                                *)
(***************************************************************************)

RpcDone == rpc_pc = "done"
RpcAnswered == Len(rpc_resp) >= 1
RpcFirstStatus == rpc_resp[1].status
RpcChallenged == RpcAnswered /\ RpcFirstStatus = 409

\* The retry is a POST of the first request's body to the first request's endpoint.
RetryRepeatsFirst ==
    /\ Len(rpc_sent) = 2
    /\ rpc_sent[2].method = "POST"
    /\ rpc_sent[2].endpoint = rpc_sent[1].endpoint
    /\ rpc_sent[2].body = rpc_sent[1].body

\* C1 (as amended): whenever the first response has status 409, exactly one
\* further request is sent, a POST of the same body to the same endpoint whose
\* X-Transmission-Session-Id header is the 409 response's header value when
\* that value is a visible-ASCII string, and the empty string when the header
\* is absent or its value is not a visible-ASCII string. No call sends more
\* than two requests.
C1_RetryCarriesToken ==
    /\ Len(rpc_sent) <= 2
    /\ RpcChallenged =>
          /\ RetryRepeatsFirst
          /\ LET h == rpc_resp[1].session
                 sent == rpc_sent[2].session
             IN  IF h # None /\ \A i \in 1..Len(h[1]) : IsVisibleAscii(h[1][i])
                 THEN sent = h
                 ELSE sent = Some(<<>>)

\* C1 witness: a call was answered 409 with header "abc" and sent its retry.
C1_Witness ==
    /\ RpcChallenged
    /\ rpc_resp[1].session = Some(HeaderAbc)
    /\ Len(rpc_sent) = 2

\* C1 as stated: the retry's header equals the 409 response's header value
\* whenever the response has the header, and is empty only when it has none.
C1_Original ==
    /\ Len(rpc_sent) <= 2
    /\ RpcChallenged =>
          /\ RetryRepeatsFirst
          /\ LET h == rpc_resp[1].session
                 sent == rpc_sent[2].session
             IN  IF h # None THEN sent = h ELSE sent = Some(<<>>)

\* C2: after a 409 first response, once the retry is answered the call has
\* returned, its result is the retry's parsed body whatever the retry's status
\* (the decode error when the body is not JSON), and no third request exists.
C2_RetryIsFinal ==
    (RpcChallenged /\ Len(rpc_resp) = 2) =>
        /\ RpcDone
        /\ Len(rpc_sent) = 2
        /\ LET parsed == ParseJson(rpc_resp[2].body)
           IN  IF parsed.ok
               THEN rpc_result.ok /\ rpc_result.value = parsed.value
               ELSE ~rpc_result.ok /\ rpc_result.kind = "decode"

\* C2 witness: the retry was itself answered 409, with a JSON body, and that
\* body was returned.
C2_Witness ==
    /\ RpcChallenged
    /\ Len(rpc_resp) = 2
    /\ rpc_resp[2].status = 409
    /\ rpc_result.ok

\* C3: a second request is sent if and only if the first response's status
\* is 409; after a success status exactly one request was sent and the call
\* has returned that response's parsed body.
C3_RetryOnlyOn409 ==
    RpcAnswered =>
        /\ (Len(rpc_sent) = 2) <=> (RpcFirstStatus = 409)
        /\ IsSuccess(RpcFirstStatus) =>
              /\ Len(rpc_sent) = 1
              /\ RpcDone
              /\ LET parsed == ParseJson(rpc_resp[1].body)
                 IN  IF parsed.ok
                     THEN rpc_result.ok /\ rpc_result.value = parsed.value
                     ELSE ~rpc_result.ok /\ rpc_result.kind = "decode"

\* C3 witness: a call answered 200 returned the parsed body after one request.
C3_Witness ==
    /\ RpcDone
    /\ RpcAnswered
    /\ RpcFirstStatus = 200
    /\ rpc_result.ok
    /\ Len(rpc_sent) = 1

\* C4: a first response whose status is neither 409 nor a success status
\* ends the call with an error that carries that status code, and no retry
\* is sent.
C4_OtherStatusIsError ==
    (RpcAnswered /\ RpcFirstStatus # 409 /\ ~IsSuccess(RpcFirstStatus)) =>
        /\ RpcDone
        /\ Len(rpc_sent) = 1
        /\ ~rpc_result.ok
        /\ rpc_result.kind = "http"
        /\ rpc_result.message.status.code = RpcFirstStatus

\* C4 witness: a call answered 500, with a JSON body, returned the error.
C4_Witness ==
    /\ RpcDone
    /\ RpcAnswered
    /\ RpcFirstStatus = 500
    /\ rpc_resp[1].body = BodySuccess
    /\ ~rpc_result.ok

(***************************************************************************)
(* Claims about the independence of the aggregator's adapter calls.         *)
(***************************************************************************)

\* The backends whose block get_all_status has gone through.
PollPassed ==
    IF poll_pc = 0 THEN {} ELSE {PollOrder[i] : i \in 1..(poll_pc - 1)}

\* How many times the adapter of a backend has been awaited in this poll.
Invocations(backend) ==
    Cardinality({i \in 1..Len(pushed_by) : pushed_by[i] = backend})

\* C11: at every point of a poll, each backend whose block has been passed
\* has had its adapter awaited exactly once if its URL is not empty and
\* never otherwise, and its call has pushed one status, whatever the earlier
\* adapters returned (inactive, parse failure or degraded extras); no backend
\* is awaited twice.
C11_EveryConfiguredAdapterOnce ==
    /\ Len(statuses) = Len(pushed_by)
    /\ \A i \in 1..Len(PollOrder) :
          Invocations(PollOrder[i]) =
              IF PollOrder[i] \in PollPassed /\ IsConfigured(config, PollOrder[i])
              THEN 1 ELSE 0

\* C11 witness: a poll returned in which Plex was unreachable, Sonarr
\* answered 500, Radarr's body did not parse and Jackett's listing call
\* failed, and Emby, the last backend, still gave its status.
C11_Witness ==
    /\ PollReturned
    /\ pushed_by = <<"plex", "sonarr", "radarr", "jackett", "emby">>
    /\ ~statuses[1].active /\ statuses[1].message = TransportMessage
    /\ ~statuses[2].active /\ statuses[2].message = HttpMessage(500)
    /\ statuses[3].active /\ statuses[3].extras = None
    /\ statuses[4].active /\ statuses[4].extras[1].total_indexers = 0
    /\ statuses[5].name = "Emby" /\ statuses[5].active
    /\ statuses[5].extras # None

(***************************************************************************)
(* Claims about the status a single get_status call returns.                *)
(***************************************************************************)

\* A get_status call has returned.
Probed == probed # ""

\* A text with nothing to read in it.
IsEmptyText(t) == \A i \in 1..Len(t) : t[i] = ""

\* The forms a status has on each path of an adapter.
TransportForm(s) ==
    ~s.active /\ s.extras = None /\ Find(s.message, TransportMessage) # None

HttpForm(s) ==
    /\ ~s.active /\ s.extras = None
    /\ Len(s.message) > 0 /\ s.message[1] \in {"HTTP ", "HTTP -- "}

ParseForm(s) ==
    /\ s.active /\ s.extras = None
    /\ Len(s.message) > 0 /\ s.message[1] \in {"Parse Error", "Parse Error: "}

SuccessForm(s) ==
    /\ s.active /\ s.extras # None
    /\ Len(s.message) > 0 /\ s.message[1] \notin {"Parse Error", "Parse Error: "}

FormsOf(s) ==
    {form \in {"transport", "http", "parse", "success"} :
        CASE form = "transport" -> TransportForm(s)
          [] form = "http" -> HttpForm(s)
          [] form = "parse" -> ParseForm(s)
          [] form = "success" -> SuccessForm(s)}

\* C12: every status a Sonarr, Jackett, Transmission, Plex or Emby get_status
\* call returns has no extras when it is inactive, has a message that is not
\* empty, and has the form of exactly one of the transport-failure,
\* HTTP-failure, parse-failure and success paths; when the primary call got
\* no answer it is the transport-failure form: inactive, with a message and
\* without extras.
C12_StatusWellFormed ==
    Probed =>
        /\ (~probe_status.active => probe_status.extras = None)
        /\ ~IsEmptyText(probe_status.message)
        /\ Cardinality(FormsOf(probe_status)) = 1
        /\ (probe_input.net = "refused" =>
               /\ FormsOf(probe_status) = {"transport"}
               /\ ~probe_status.active
               /\ probe_status.extras = None)

\* C12 witness: Jackett's search endpoint refused the connection and the
\* status is inactive, carries the connection error and has no extras.
C12_Witness ==
    /\ probed = "jackett"
    /\ probe_input.net = "refused"
    /\ ~probe_status.active
    /\ probe_status.message = <<"Connection error: ", "error sending request">>
    /\ probe_status.extras = None

\* The primary call was answered with a status the adapter takes as a
\* failure (Transmission takes the 409 challenge as a sign of life).
PrimaryHttpFailure ==
    /\ Probed
    /\ probe_input.net = "answered"
    /\ ~IsSuccess(probe_input.status)
    /\ ~(probed = "transmission" /\ probe_input.status = 409)

\* C13, as stated: when the primary call is answered with a failure status
\* the status is inactive, has no extras and its message holds the digits of
\* the status code.  Jackett's message holds the body's first characters
\* instead of the code.
C13_HttpFailureNamesStatus ==
    PrimaryHttpFailure =>
        /\ ~probe_status.active
        /\ probe_status.extras = None
        /\ Find(probe_status.message, Decimal(probe_input.status)) # None

\* The primary call was answered with a success status and a body that does
\* not have the expected shape.
PrimaryUnparsable ==
    /\ Probed
    /\ probe_input.net = "answered"
    /\ IsSuccess(probe_input.status)
    /\ ~Parses(probe_input.body)

\* C14, amended: on a success status with a body of another shape, Sonarr,
\* Plex and Emby return an active status whose message starts with "Parse
\* Error", without version and without extras; Jackett and Transmission do
\* not read the primary body and return what they return for a good body:
\* active, "Running", with extras.
C14_ParseFailure ==
    PrimaryUnparsable =>
        IF probed \in {"sonarr", "plex", "emby"}
        THEN /\ probe_status.active
             /\ probe_status.message[1] \in {"Parse Error", "Parse Error: "}
             /\ probe_status.version = None
             /\ probe_status.extras = None
        ELSE /\ probe_status = GetStatus(probed, [probe_input EXCEPT !.body = "good"])
             /\ probe_status.active
             /\ probe_status.message = <<"Running">>
             /\ probe_status.extras # None

\* C14 witness: Sonarr answered 200 with a body that is not its system
\* status and the status is active with "Parse Error" and no extras.
C14_Witness ==
    /\ probed = "sonarr"
    /\ probe_input.net = "answered" /\ probe_input.status = 200
    /\ probe_input.body = "bad"
    /\ probe_status.active
    /\ probe_status.message = <<"Parse Error">>
    /\ probe_status.extras = None

\* C14, as stated: every adapter reports a parse failure without extras.
C14_Original ==
    PrimaryUnparsable =>
        /\ probe_status.active
        /\ probe_status.message[1] \in {"Parse Error", "Parse Error: "}
        /\ probe_status.extras = None

\* The primary call succeeded and its body, where the adapter reads it, has
\* the expected shape.
PrimarySucceeded ==
    /\ Probed
    /\ probe_input.net = "answered"
    /\ IsSuccess(probe_input.status)
    /\ (probed \in {"sonarr", "plex", "emby"} => Parses(probe_input.body))

\* C15, as stated: after a successful primary call a failed further call
\* leaves the status active and its message as it is with every call
\* working, and only zeroes or empties its own extras field: Sonarr's two
\* counts each on their own, Jackett's total_indexers, Transmission's
\* summary.  Jackett does not look at the listing call's status and counts
\* the indexers of the body of a 500 answer.
C15_SecondaryFailureDegrades ==
    PrimarySucceeded =>
        /\ probe_status.active
        /\ probe_status.message =
              GetStatus(probed, [probe_input EXCEPT !.second = CallOk,
                                                    !.third = CallOk]).message
        /\ probe_status.extras # None
        /\ (probed = "sonarr" =>
               /\ probe_status.extras[1].missing_episodes =
                      IF Usable(probe_input.second) THEN 3 ELSE 0
               /\ probe_status.extras[1].total_series =
                      IF Usable(probe_input.third) THEN 12 ELSE 0)
        /\ (probed = "jackett" /\ ~Usable(probe_input.second) =>
               probe_status.extras[1].total_indexers = 0)
        /\ (probed = "transmission" /\ ~Usable(probe_input.second) =>
               probe_status.extras[1] = [object |-> "{}"])

(***************************************************************************)
(* Claims about the indexer scanner and its extractors.                     *)
(***************************************************************************)

\* The fragments of the document that carry configured="true" themselves.
OwnConfigured ==
    LET IsConfiguredFragment(fr) == fr.configured = Some(<<"t", "r", "u", "e">>)
    IN  SelectSeq(fragments, IsConfiguredFragment)

\* C16, as stated: the listing holds one record per fragment that carries
\* configured="true" itself, in document order, and none for the others.
\* A fragment without a configured attribute takes the attribute of a later
\* fragment and is listed.
C16_ListsOwnConfigured ==
    listing = "returned" =>
        /\ Len(indexers) = Len(OwnConfigured)
        /\ \A i \in 1..Len(indexers) : indexers[i].id = OwnConfigured[i].id

\* C17, as stated: the count is the number of fragments that carry
\* configured="true" themselves, and equals the number of records of the
\* listing of the same document.  The window of the counting pass reaches
\* into the next fragment, and misses an attribute that lies beyond it.
C17_CountIsListingLength ==
    /\ (counting = "returned" => count = Len(OwnConfigured))
    /\ (counting = "returned" /\ listing = "returned" => count = Len(indexers))

\* C18, as stated: the record of a fragment that has no title of its own is
\* named by the fragment's id.  The title of a later fragment is taken
\* instead.
C18_NameDefaultsToOwnId ==
    listing = "returned" =>
        \A i \in 1..Len(indexers) : \A k \in 1..Len(fragments) :
            (fragments[k].id = indexers[i].id /\ fragments[k].title = None)
                => indexers[i].name = indexers[i].id

\* The raw value without its blanks (the values hold none inside).
Unpadded(raw) ==
    LET NotBlank(c) == c # " "
    IN  SelectSeq(raw, NotBlank)

GotTorrents ==
    /\ torrent_extras # None
    /\ torrent_get.ok
    /\ torrent_get.value.shape = "object"
    /\ torrent_get.value.arguments # None

\* The torrents of that list, and the positions of those with status 4.
GivenTorrents == torrent_get.value.arguments[1].torrents

DownloadingAt == {i \in 1..Len(GivenTorrents) : GivenTorrents[i].status = 4}

\* The position of the k-th torrent with status 4.
NthDownloading(k) ==
    CHOOSE i \in DownloadingAt :
        Cardinality({j \in DownloadingAt : j <= i}) = k

\* The whole percentage nearest to a value given in thousandths.
NearestPercent(permille) ==
    CHOOSE p \in 0..100 : 10 * p - 5 <= permille /\ permille < 10 * p + 5

\* C20: for every torrent list, total_torrents is its length, downloading
\* is the number of its torrents with status 4, and downloading_names holds
\* min(5, downloading) names: the k-th is "name (percent%)" of the k-th
\* torrent with status 4 in the list's order.
C20_TorrentSummary ==
    GotTorrents =>
        LET summary == torrent_extras[1]
            listed == IF Cardinality(DownloadingAt) < 5
                     THEN Cardinality(DownloadingAt) ELSE 5
        IN  /\ summary.total_torrents = Len(GivenTorrents)
            /\ summary.downloading = Cardinality(DownloadingAt)
            /\ Len(summary.downloading_names) = listed
            /\ \A k \in 1..listed :
                  summary.downloading_names[k] =
                      <<GivenTorrents[NthDownloading(k)].name, " (">>
                      \o Decimal(NearestPercent(GivenTorrents[NthDownloading(k)].permille))
                      \o <<"%)">>

\* C20 witness: seven torrents, the first one seeding and the six others
\* downloading; five names are listed and the first is the second torrent's.
C20_Witness ==
    /\ GotTorrents
    /\ Len(GivenTorrents) = 7
    /\ GivenTorrents[1].status = 6
    /\ GivenTorrents[2] = Torrent(4, "ubuntu.iso", 125)
    /\ torrent_extras[1].total_torrents = 7
    /\ torrent_extras[1].downloading = 6
    /\ Len(torrent_extras[1].downloading_names) = 5
    /\ torrent_extras[1].downloading_names[1] = <<"ubuntu.iso", " (", "1", "3", "%)">>

(***************************************************************************)
(* Claims about the Transmission client's functions.                        *)
(***************************************************************************)

OpDone == op_pc = "done"

\* C21: every request a function of the Transmission client sends, first
\* attempt or retry, carries basic-auth credentials (the configured user and
\* password) exactly when the user name is not empty; with an empty user name
\* no request carries credentials, whatever the password.
C21_AuthIffUserSet ==
    \A i \in 1..Len(wire) :
        /\ (wire[i].auth # None) <=> (op.user # "")
        /\ wire[i].auth # None =>
              wire[i].auth = Some([user |-> op.user, pass |-> op.pass])

\* C21 witness: rpc_request was called with an empty user name and a
\* password, was answered 409 and has sent its retry; neither request carries
\* credentials.
C21_Witness ==
    /\ op.name = "list_torrents"
    /\ op.user = ""
    /\ op.pass = "pw"
    /\ Len(wire) = 2
    /\ wire[2].session # None
    /\ wire[1].auth = None
    /\ wire[2].auth = None

\* The functions C22 names: every one but update_config.
HandshakeClaimed == Operations \ {"update_config"}

\* C22: when the first request of a function is answered 409, the function
\* repeats that request once with the session token of the 409 response and
\* returns what the repeated request gives.
C22_EveryOperationRetries ==
    (/\ OpDone
     /\ op.name \in HandshakeClaimed
     /\ answers # <<>>
     /\ answers[1].status = 409)
    => /\ Len(wire) = 2
       /\ wire[2] = [wire[1] EXCEPT !.session = Some(SessionIdOf(answers[1]))]
       /\ op_result = IF Len(answers) = 2 THEN RetryResult(answers[2])
                      ELSE TransportError

\* C28: the first request of every function carries no session header, also
\* when the function before it was handed a token; a request carries a token
\* only when it is the repetition of a request of the same rpc_request call
\* that was answered 409, and then the token is that response's.
C28_TokenNotCached ==
    /\ wire # <<>> => wire[1].session = None
    /\ rpc_sent # <<>> => rpc_sent[1].session = None
    /\ \A i \in 1..Len(wire) :
          wire[i].session # None =>
              /\ i > 1
              /\ wire[i - 1].session = None
              /\ wire[i - 1].body = wire[i].body
              /\ Len(answers) >= i - 1
              /\ answers[i - 1].status = 409
              /\ wire[i].session = Some(SessionIdOf(answers[i - 1]))

\* C28 witness: the function before was handed the token "abc", and the
\* current rpc_request call has sent its first request and, after a 409 with
\* another token, its retry.
C28_Witness ==
    /\ prev_token = Some(HeaderAbc)
    /\ op.name = "list_torrents"
    /\ Len(wire) = 2
    /\ wire[1].session = None
    /\ answers[1].session = None
    /\ wire[2].session = Some(<<>>)

\* The probe of get_status was answered with a success status or 409.
ProbeAccepted ==
    /\ answers # <<>>
    /\ IsSuccess(answers[1].status) \/ answers[1].status = 409

\* The torrent-get of fetch_extras gave a torrent list.
TorrentListRead ==
    /\ rpc_result.ok
    /\ rpc_result.value = ParseJson(BodyTorrents).value

\* C30: get_status returns active with the message "Running" exactly when its
\* session-get probe was answered with a success status or 409; the probe is
\* sent once; what torrent-get gives changes only extras, which is the empty
\* object when torrent-get failed or did not give a torrent list.
C30_ProbeDecidesActive ==
    (OpDone /\ op.name = "get_status") =>
        /\ op_result.active <=> ProbeAccepted
        /\ (op_result.message = <<"Running">>) <=> ProbeAccepted
        /\ wire[1].body = "session-get"
        /\ \A i \in 2..Len(wire) : wire[i].body = "torrent-get"
        /\ ProbeAccepted =>
              /\ op_result.name = "Transmission"
              /\ op_result.version = None
              /\ op_result.extras # None
              /\ ~TorrentListRead => op_result.extras[1] = [object |-> "{}"]
              /\ TorrentListRead =>
                    op_result.extras[1] = FetchExtras(RpcOk(TorrentGet(FiveTorrents)))
        /\ ~ProbeAccepted => op_result.extras = None /\ Len(wire) = 1

\* C30 witness: the probe was answered 409, torrent-get was answered 409 and
\* its retry 500 with a body that is not JSON; the status is active, Running,
\* with the empty object as extras.
C30_Witness ==
    /\ OpDone
    /\ op.name = "get_status"
    /\ Len(answers) = 3
    /\ answers[1].status = 409
    /\ answers[2].status = 409
    /\ answers[3].status = 500
    /\ answers[3].body = BodyHtml
    /\ op_result.active
    /\ op_result.message = <<"Running">>
    /\ op_result.extras = Some([object |-> "{}"])

(***************************************************************************)
(* Claims about the scanner on whole and on cut-short documents.            *)
(***************************************************************************)

\* Every fragment of the document is whole.
AllWhole == \A k \in 1..Len(fragments) : fragments[k].cut = "none"

\* C29, as stated: on a document of whole fragments the listing holds one
\* record per fragment that carries configured="true" itself, in document
\* order, each with the id of its fragment and with the type of its
\* fragment, "public" when the fragment has no type attribute.  A fragment
\* takes the type, and the configured attribute, of a later fragment when it
\* has none itself.
C29_OwnIdTypeConfigured ==
    (listing = "returned" /\ AllWhole) =>
        /\ Len(indexers) = Len(OwnConfigured)
        /\ \A i \in 1..Len(indexers) :
              i <= Len(OwnConfigured) =>
                  /\ indexers[i].id = OwnConfigured[i].id
                  /\ indexers[i].type = UnwrapOr(OwnConfigured[i].itype, <<"p", "u", "b", "l", "i", "c">>)

\* The slices the two loops take lie inside the text they are taken from.
SlicesInRange ==
    /\ (listing = "scanning" /\ Find(remaining, Marker) # None)
          => Find(remaining, Marker)[1] + MarkerLen <= Len(remaining)
    /\ (counting = "scanning" /\ Find(search, Marker) # None)
          => Find(search, Marker)[1] + MarkerLen <= Len(search)

\* While a pass is scanning it can take its next step: its loop ends when
\* no marker is left, and otherwise its next iteration leaves a strictly
\* shorter text.
CanStep ==
    /\ (listing = "scanning" /\ Find(remaining, Marker) # None)
          => Len(ListStep(remaining, indexers).remaining) < Len(remaining)
    /\ (counting = "scanning" /\ Find(search, Marker) # None)
          => Len(CountStep(search, count).search) < Len(search)

\* An iteration of either loop leaves a strictly shorter text to scan.
Shortens ==
    /\ (listing = "scanning" /\ <<remaining, indexers>>' # <<remaining, indexers>>)
          => Len(remaining') + MarkerLen <= Len(remaining)
    /\ (counting = "scanning" /\ <<search, count>>' # <<search, count>>)
          => Len(search') + MarkerLen <= Len(search)

\* C27: on every document, whole or with cut-short fragments, each iteration
\* of list_indexers and of count_configured_indexers takes its slices inside
\* the text and leaves a strictly shorter text to scan, so that both loops
\* end after at most Len(xml) / 9 iterations; a value or a title that is not
\* closed is taken as absent; and once a document has been read
\* list_indexers ends with the listing, never with an error.
C27_ScansTerminate ==
    /\ []SlicesInRange
    /\ []CanStep
    /\ [][Shortens]_vars
    /\ [](listing = "error" => xml = <<>>)
    /\ [](listing = "returned" => Len(indexers) <= Len(fragments))

\* C27 witness: both passes have returned on a document that ends inside
\* the id attribute of its last fragment, after a fragment whose title is
\* not closed: the first fragment is listed under its id, the last one is
\* not listed.
C27_Witness ==
    /\ Len(fragments) = 2
    /\ fragments[1].cut = "title"
    /\ fragments[2].cut = "attr"
    /\ listing = "returned"
    /\ counting = "returned"
    /\ Find(remaining, Marker) = None
    /\ Len(indexers) = 1
    /\ indexers[1].id = <<"h">>
    /\ indexers[1].name = <<"h">>
    /\ count = 1


(***************************************************************************)
(* Claims about the configuration under its lock.                           *)
(***************************************************************************)

\* An update is in progress from its block under the write lock until its
\* last setting is written.
InProgress(u) == updates[u].pc = "saving"

\* C23: every outbound call has a finite timeout, so a status poll that has
\* started always eventually returns its list, even when a configured
\* backend accepts the request and never answers.
C23_PollEventuallyReturns ==
    (reader.handler = "get_all_status" /\ reader.holding)
        ~> (reader.handler = "get_all_status" /\ ~reader.holding)

\* C24: under any interleaving of updates with readers, everything a reader
\* reads during its whole duration is one single configuration, which is the
\* initial configuration or the complete resolved result of one update.
C24_ReaderSeesOneVersion ==
    /\ \E i \in 1..Len(versions) : \A k \in 1..Len(seen) : seen[k] = versions[i]
    /\ versions[1] \in StartConfigs
    /\ \A i \in 2..Len(versions) :
           \E u \in Updaters :
               /\ updates[u].pc # "idle"
               /\ versions[i] = updates[u].resolved
               /\ versions[i] = Merge(versions[i - 1], updates[u].payload)
    /\ reader.holding => config = versions[Len(versions)]

\* A status poll has read the configuration in each of its seven blocks and
\* returned, all under the result of an update whose settings were being
\* written meanwhile.
C24_Witness ==
    /\ reader.handler = "get_all_status"
    /\ ~reader.holding
    /\ Len(seen) = Len(PollOrder)
    /\ Len(versions) = 2
    /\ seen[1] = versions[2]
    /\ seen[Len(PollOrder)] = versions[2]
    /\ versions[2] # versions[1]
    /\ \E u \in Updaters : InProgress(u) /\ updates[u].saved = 3

\* The configuration after p1 and then p2 are merged into c.
Sequentially(c, p1, p2) == Merge(Merge(c, p1), p2)

\* C25: each update resolves the mask against the configuration in memory at
\* the moment it replaces it: once two concurrent updates have both replaced
\* the configuration, and so after both have completed, the configuration in
\* memory is the result of applying the two merges one after the other, in
\* one of the two orders.
C25_UpdatesSerialize ==
    (\A u \in Updaters : updates[u].pc \in {"saving", "done"}) =>
        \/ config = Sequentially(versions[1], updates["A"].payload, updates["B"].payload)
        \/ config = Sequentially(versions[1], updates["B"].payload, updates["A"].payload)

\* A sets a new key, B posts the mask for it; both have completed, their
\* settings written in turns (the table is left with values of both), and
\* the key in memory is A's.
C25_Witness ==
    /\ \A u \in Updaters : updates[u].pc = "done"
    /\ versions[1].sonarr_key = "k1"
    /\ updates["A"].payload.sonarr_key = "k2"
    /\ updates["B"].payload.sonarr_key = MaskStr
    /\ config.sonarr_key = "k2"
    /\ LoadConfigFromDb(db) # updates["A"].resolved
    /\ LoadConfigFromDb(db) # updates["B"].resolved

\* C26: whenever no update is in progress the persisted settings equal the
\* configuration in memory field for field: a restart would reload exactly
\* that configuration.
C26_PersistedEqualsMemory ==
    (\A u \in Updaters : ~InProgress(u)) => LoadConfigFromDb(db) = config

====
